---- MODULE Spec2Model ----
(***************************************************************************)
(* Model of the animal-impact-app HTTP API: the relational server          *)
(* (server.ts over database.ts) and the flat-document server               *)
(* (simple-server.ts).  One state machine covers both; the variable        *)
(* backend says which of the two programs is running.                      *)
(*                                                                         *)
(* A request handler is a sequence of steps separated by its awaits: each  *)
(* action below is the code that runs between two awaits, so two requests  *)
(* interleave exactly where the event loop lets them.                      *)
(***************************************************************************)
EXTENDS Integers, Sequences, FiniteSets, TLC

VARIABLES
    backend,      \* "sql" (server.ts) or "json" (simple-server.ts)
    users,        \* users table / db.users
    donations,    \* donations table / db.donations
    conversions,  \* vegan_conversions table / db.conversions
    media,        \* media_shared table / db.media
    campaigns,    \* campaigns table / db.campaigns
    lastId,       \* db.lastId of the flat document (0 and unused under sql)
    now,          \* the wall clock, in days
    reqs,         \* the requests in flight, by slot
    last,         \* the response sent by the step just taken, or NoResp
    file,         \* the document on disk of simple-server.ts (NoFile under sql)
    storageUp,    \* the storage answers: the disk is writable, the database reachable
    limiter,      \* the hit count of the rate limiter, by client address
    client        \* the browser: the token it holds and those it has discarded

tables == <<users, donations, conversions, media, campaigns>>
store == <<users, donations, conversions, media, campaigns, lastId>>
env == <<storageUp, limiter, client>>
vars ==
    <<backend, users, donations, conversions, media, campaigns, lastId, now, reqs, last,
      file, storageUp, limiter, client>>

(***************************************************************************)
(* Bounds of the model.                                                    *)
(***************************************************************************)
MaxInFlight == 2      \* requests in flight at once
MaxUsers == 3         \* rows of the users table
MaxClock == 1         \* days the clock runs in the specifications without expiry

Slots == 1..MaxInFlight

(***************************************************************************)
(* JavaScript values.  A string field that is absent and one that is ""    *)
(* are both falsy, so "" stands for both.  A number is a record so that    *)
(* NaN is a value.                                                         *)
(***************************************************************************)
Num(n) == [nan |-> FALSE, v |-> n]
NaN == [nan |-> TRUE, v |-> 0]
Undefined == [t |-> "undefined"]
JsNumber(n) == [t |-> "number", num |-> Num(n)]
JsString(cs) == [t |-> "string", chars |-> cs]

\* x + y of two numbers
Plus(x, y) == IF x.nan \/ y.nan THEN NaN ELSE Num(x.v + y.v)

\* !s for a string field
FalsyStr(s) == s = ""

JsDate(d) == [t |-> "date", d |-> d]     \* a date string, by its day

\* !x for a value that may be undefined, a number, a string or a date string
Falsy(x) ==
    \/ x.t = "undefined"
    \/ x.t = "number" /\ (x.num.nan \/ x.num.v = 0)
    \/ x.t = "string" /\ x.chars = <<>>

DigitValue(c) ==
    CASE c = "0" -> 0 [] c = "1" -> 1 [] c = "2" -> 2 [] c = "3" -> 3
      [] c = "4" -> 4 [] c = "5" -> 5 [] c = "6" -> 6 [] c = "7" -> 7
      [] c = "8" -> 8 [] c = "9" -> 9 [] OTHER -> -1

IsDigit(c) == DigitValue(c) >= 0

RECURSIVE DigitPrefix(_, _, _)
\* the value of the longest run of digits of cs from position i on, or -1
\* when there is no digit at i
DigitPrefix(cs, i, acc) ==
    IF i <= Len(cs) /\ IsDigit(cs[i])
    THEN DigitPrefix(cs, i + 1, (IF acc < 0 THEN 0 ELSE acc) * 10 + DigitValue(cs[i]))
    ELSE acc

\* parseFloat of a string: an optional sign, then the longest numeric
\* prefix; NaN when there is none (whole numbers only)
ParseNumericPrefix(cs) ==
    LET neg == Len(cs) >= 1 /\ cs[1] = "-"
        first == IF Len(cs) >= 1 /\ cs[1] \in {"-", "+"} THEN 2 ELSE 1
        d == DigitPrefix(cs, first, -1)
    IN IF d < 0 THEN NaN ELSE Num(IF neg THEN 0 - d ELSE d)

\* parseFloat(x): x is converted to a string first
ParseFloat(x) ==
    CASE x.t = "undefined" -> NaN
      [] x.t = "number" -> x.num
      [] x.t = "string" -> ParseNumericPrefix(x.chars)

\* parseInt(x) || 0
ParseIntOrZero(x) ==
    LET n == ParseFloat(x) IN IF n.nan THEN 0 ELSE n.v

(***************************************************************************)
(* bcrypt and jsonwebtoken.                                                *)
(***************************************************************************)
BcryptCost == 10
TokenTTL == 7
JWT_SECRET == "JWT_SECRET"

\* bcrypt.hash(password, cost)
BcryptHash(password, cost) == [alg |-> "bcrypt", cost |-> cost, of |-> password]

\* bcrypt.compare(password, hash)
BcryptCompare(password, hash) == hash.of = password

\* jwt.sign(payload, secret, {expiresIn: '7d'}) at time t
JwtSign(userId, email, secret, t) ==
    [userId |-> userId, email |-> email, iat |-> t, exp |-> t + TokenTTL, key |-> secret]

\* the expiry of the token is not looked at
JwtVerify_NoExpiry(token, secret, t) == token.key = secret

\* jwt.verify(token, secret) at time t: the signature, then the expiry
JwtVerify(token, secret, t) == token.key = secret /\ t < token.exp

(***************************************************************************)
(* Dates of the sample records, in months.                                 *)
(***************************************************************************)
TwoMonthsAgo == 0
LastMonth == 1
Today == 2

DemoEmail == "johndoe@gmail.com"
DemoPassword == "password123"


(***************************************************************************)
(* Rows.                                                                   *)
(***************************************************************************)
User(id, email, name, password, t) ==
    [id |-> id, email |-> email, name |-> name, password |-> password, created_at |-> t]

Donation(id, uid, organization, amount, date, notes, t) ==
    [id |-> id, user_id |-> uid, organization |-> organization, amount |-> amount,
     date |-> date, notes |-> notes, created_at |-> t]

Conversion(id, uid, person_name, date, influence_type, notes, t) ==
    [id |-> id, user_id |-> uid, person_name |-> person_name, conversion_date |-> date,
     influence_type |-> influence_type, notes |-> notes, created_at |-> t]

Media(id, uid, platform, content_type, reach, date, url, notes, t) ==
    [id |-> id, user_id |-> uid, platform |-> platform, content_type |-> content_type,
     reach_estimate |-> reach, date |-> date, url |-> url, notes |-> notes, created_at |-> t]

Campaign(id, uid, campaign_name, organization, participation_type, date, impact, t) ==
    [id |-> id, user_id |-> uid, campaign_name |-> campaign_name,
     organization |-> organization, participation_type |-> participation_type,
     date |-> date, impact_description |-> impact, created_at |-> t]

(***************************************************************************)
(* The demo data each program starts with.                                 *)
(***************************************************************************)
\* simple-server.ts initializeDemoData on an empty document, at time t
initializeDemoData(t) ==
    [users |-> << User(1, DemoEmail, "John Doe", BcryptHash(DemoPassword, BcryptCost), t) >>,
     donations |-> <<
        Donation(2, 1, "Animal Sanctuary Fund", Num(200), Today, "Monthly donation", t),
        Donation(3, 1, "Wildlife Protection Org", Num(150), LastMonth, "One-time donation", t),
        Donation(4, 1, "Farm Animal Welfare", Num(100), LastMonth, "Monthly donation", t) >>,
     conversions |-> <<
        Conversion(5, 1, "Alice Smith", LastMonth, "Documentary sharing", "Showed Dominion documentary", t),
        Conversion(6, 1, "Bob Johnson", LastMonth, "Restaurant visit", "Took to vegan restaurant", t) >>,
     media |-> <<
        Media(7, 1, "Facebook", "Video", 500, Today, "", "Farm animal video", t),
        Media(8, 1, "Instagram", "Story", 200, Today, "", "Vegan meal photo", t) >>,
     campaigns |-> <<
        Campaign(9, 1, "Factory Farm Ban", "Animal Justice League", "Petition signing",
                 LastMonth, "Helped gather 1000 signatures", t) >>,
     lastId |-> 9]

\* database.ts initializeDatabase on empty tables, at time t
initializeDatabase(t) ==
    [users |-> << User(1, DemoEmail, "John Doe", BcryptHash(DemoPassword, BcryptCost), t) >>,
     donations |-> <<
        Donation(1, 1, "Animal Sanctuary Fund", Num(200), Today, "Monthly donation", t),
        Donation(2, 1, "Wildlife Protection Org", Num(150), LastMonth, "One-time donation", t),
        Donation(3, 1, "Farm Animal Welfare", Num(100), LastMonth, "Monthly donation", t),
        Donation(4, 1, "Humane Society", Num(75), TwoMonthsAgo, "Holiday donation", t),
        Donation(5, 1, "Best Friends Animal Society", Num(125), TwoMonthsAgo, "One-time donation", t) >>,
     conversions |-> <<
        Conversion(1, 1, "Alice Smith", LastMonth, "Documentary sharing", "Showed Dominion documentary", t),
        Conversion(2, 1, "Bob Johnson", LastMonth, "Restaurant visit", "Took to vegan restaurant", t),
        Conversion(3, 1, "Sarah Wilson", TwoMonthsAgo, "Recipe sharing", "Shared amazing vegan recipes", t),
        Conversion(4, 1, "Mike Davis", TwoMonthsAgo, "Health discussion", "Discussed health benefits of plant-based diet", t),
        Conversion(5, 1, "Emma Brown", TwoMonthsAgo, "Environmental facts", "Shared environmental impact data", t),
        Conversion(6, 1, "Chris Lee", TwoMonthsAgo, "Cooking class", "Taught vegan cooking class", t),
        Conversion(7, 1, "Jessica Taylor", TwoMonthsAgo, "Book recommendation", "Recommended Eating Animals by Jonathan Safran Foer", t),
        Conversion(8, 1, "David Rodriguez", TwoMonthsAgo, "Farm sanctuary visit", "Visited local farm sanctuary together", t) >>,
     media |-> <<
        Media(1, 1, "Facebook", "Video", 500, Today, "", "Farm animal sanctuary video", t),
        Media(2, 1, "Instagram", "Story", 200, Today, "", "Vegan meal photo", t),
        Media(3, 1, "Twitter", "Post", 150, LastMonth, "", "Animal rights awareness tweet", t),
        Media(4, 1, "LinkedIn", "Article", 300, LastMonth, "", "Corporate animal welfare article", t),
        Media(5, 1, "TikTok", "Video", 1200, TwoMonthsAgo, "", "Vegan recipe tutorial", t),
        Media(6, 1, "YouTube", "Video", 850, TwoMonthsAgo, "", "Documentary recommendation video", t) >>,
     campaigns |-> <<
        Campaign(1, 1, "Factory Farm Ban Initiative", "Animal Justice League", "Petition signing",
                 LastMonth, "Helped gather 1000 signatures for factory farming ban", t),
        Campaign(2, 1, "Wildlife Protection March", "Wildlife Defense Fund", "Event participation",
                 TwoMonthsAgo, "Participated in march for wildlife corridor protection", t),
        Campaign(3, 1, "Corporate Cage-Free Campaign", "Mercy For Animals", "Email campaign",
                 TwoMonthsAgo, "Sent 50 emails to corporations requesting cage-free policies", t),
        Campaign(4, 1, "Climate Action for Animals", "Animal Agriculture Reform Initiative",
                 "Social media advocacy", TwoMonthsAgo,
                 "Shared 25 posts about animal agriculture and climate change", t),
        Campaign(5, 1, "End Fur Fashion Campaign", "PETA", "Store protests", TwoMonthsAgo,
                 "Participated in peaceful protests at 3 stores selling fur", t) >>,
     lastId |-> 0]

\* database.ts seedDatabase on empty tables, at time t: the records of
\* initializeDemoData, numbered by each table
seedDatabase(t) ==
    LET demo == initializeDemoData(t)
        Renumber(rows) == [k \in 1..Len(rows) |-> [rows[k] EXCEPT !.id = k]]
    IN [users |-> demo.users,
        donations |-> Renumber(demo.donations),
        conversions |-> Renumber(demo.conversions),
        media |-> Renumber(demo.media),
        campaigns |-> Renumber(demo.campaigns),
        lastId |-> 0]

\* the seeding routines of each backend
SeedingRoutines(b) ==
    IF b = "json" THEN {"initializeDemoData"} ELSE {"initializeDatabase", "seedDatabase"}

SeedData(routine, t) ==
    CASE routine = "initializeDemoData" -> initializeDemoData(t)
      [] routine = "initializeDatabase" -> initializeDatabase(t)
      [] routine = "seedDatabase" -> seedDatabase(t)

Backends == {"sql", "json"}

DemoData(b) == IF b = "json" THEN initializeDemoData(0) ELSE initializeDatabase(0)

(***************************************************************************)
(* Requests and responses.                                                 *)
(***************************************************************************)
Idle == [pc |-> "idle"]
NoResp == [status |-> 0]
NoToken == [userId |-> 0, email |-> "", iat |-> 0, exp |-> 0, key |-> ""]
NoHeader == <<>>

\* a request in flight: what it carries, where it stands (pc), its locals,
\* and g, what was true when it arrived (history, read by the properties only)
Request(route, hdr, body, pc, locals, g) ==
    locals @@ [route |-> route, hdr |-> hdr, body |-> body, pc |-> pc, g |-> g,
               userId |-> 0, found |-> 0, hashed |-> BcryptHash("", 0)]

\* the response to request r
Response(r, status, out) ==
    out @@ [route |-> r.route, hdr |-> r.hdr, body |-> r.body, g |-> r.g,
            status |-> status, error |-> "", token |-> NoToken, id |-> 0]

Reply(i, r, status, out) ==
    /\ reqs' = [reqs EXCEPT ![i] = Idle]
    /\ last' = Response(r, status, out)

\* the flat document as it is in memory
Document ==
    [users |-> users, donations |-> donations, conversions |-> conversions,
     media |-> media, campaigns |-> campaigns, lastId |-> lastId]
NoFile == [lastId |-> -1]

\* simple-server.ts saveDatabase(), which every step that changes db calls
\* before it answers: the document is written to the file; a failing write
\* is caught and logged, and the file stays as it was
saveDatabase ==
    file' = IF backend = "json" /\ store' # store /\ storageUp THEN Document' ELSE file

\* the client addresses, the limiter before any request (the hits of the
\* address in its current window; windows counts the windows it has had, for
\* the properties only), and the browser before any login
Addresses == {"10.0.0.1", "10.0.0.2"}
NoHits == [totalHits |-> 0, windows |-> 0]
NoClient == [token |-> NoToken, discarded |-> {}, error |-> ""]

\* the server has started and has saved what it holds; nobody has sent a
\* request
EnvInit ==
    /\ file = IF backend = "json" THEN Document ELSE NoFile
    /\ storageUp = TRUE
    /\ limiter = [a \in Addresses |-> NoHits]
    /\ client = NoClient

\* a request arrives in the first free slot
FreeSlot(i) == reqs[i] = Idle /\ \A j \in 1..(i - 1) : reqs[j] # Idle

Suspend(i, r) ==
    /\ reqs' = [reqs EXCEPT ![i] = r]
    /\ last' = NoResp

(***************************************************************************)
(* The users table.                                                        *)
(***************************************************************************)
\* the existence check left out
FindUserByEmail_NoCheck(us, email) == 0

\* db.users.find(u => u.email === email) and
\* SELECT ... FROM users WHERE email = ?: the position of the first user
\* with this email, 0 when there is none
FindUserByEmail(us, email) ==
    IF \E k \in 1..Len(us) : us[k].email = email
    THEN CHOOSE k \in 1..Len(us) :
            /\ us[k].email = email
            /\ \A j \in 1..(k - 1) : us[j].email # email
    ELSE 0

\* db.users.find(u => u.id === userId) and SELECT ... WHERE id = ?
FindUserById(us, id) ==
    IF \E k \in 1..Len(us) : us[k].id = id
    THEN CHOOSE k \in 1..Len(us) :
            /\ us[k].id = id
            /\ \A j \in 1..(k - 1) : us[j].id # id
    ELSE 0

\* email TEXT UNIQUE: the INSERT fails when the email is already stored
UniqueEmailViolated(us, email) == \E k \in 1..Len(us) : us[k].email = email

\* INTEGER PRIMARY KEY AUTOINCREMENT on a table no row is ever deleted from
NextRowId(table) == Len(table) + 1

(***************************************************************************)
(* POST /api/register                                                      *)
(***************************************************************************)
MinPasswordLength == 6

\* the length check left out
RegisterValidation_NoLength(body) ==
    IF FalsyStr(body.email) \/ FalsyStr(body.name) \/ FalsyStr(body.password)
    THEN "All fields are required"
    ELSE ""

\* the two validations of the body, "" when it passes
RegisterValidation(body) ==
    IF FalsyStr(body.email) \/ FalsyStr(body.name) \/ FalsyStr(body.password)
    THEN "All fields are required"
    ELSE IF Len(body.password) < MinPasswordLength
         THEN "Password must be at least 6 characters"
         ELSE ""

\* history: a register request for this email has been answered 201
\* (every stored user but the demo user was created by one)
Registered201(us, email) ==
    \E k \in 1..Len(us) : us[k].email = email /\ us[k].id # 1

RegisterGhost(body) ==
    [regBefore |-> Registered201(users, body.email)]

\* the users table has room for the users the requests in flight may add
UsersRoom ==
    Len(users) + Cardinality({j \in Slots : reqs[j].pc \in {"reg_check", "reg_hash", "reg_insert"}})
        < MaxUsers

\* the handler up to its first await
\* the handler takes the next id before it validates the body
RegisterRoute_CountsFirst(i, body) ==
    /\ FreeSlot(i)
    /\ LET r == Request("register", NoHeader, body, "reg_check", << >>, RegisterGhost(body))
           err == RegisterValidation(body)
       IN IF err # ""
          THEN Reply(i, r, 400, [error |-> err]) /\ lastId' = lastId + 1
          ELSE /\ lastId' = lastId
               /\ IF backend = "sql"
                  THEN UsersRoom /\ Suspend(i, r)
                  ELSE IF FindUserByEmail(users, body.email) # 0
                       THEN Reply(i, r, 400, [error |-> "User already exists"])
                       ELSE /\ UsersRoom
                            /\ Suspend(i, [r EXCEPT !.pc = "reg_hash"])
    /\ UNCHANGED <<backend, tables, now>>
    /\ UNCHANGED <<file, storageUp, client>>

RegisterRoute(i, body) ==
    /\ FreeSlot(i)
    /\ LET r == Request("register", NoHeader, body, "reg_check", << >>, RegisterGhost(body))
           err == RegisterValidation(body)
       IN IF err # ""
          THEN Reply(i, r, 400, [error |-> err])
          ELSE IF backend = "sql"
               THEN UsersRoom /\ Suspend(i, r)       \* await dbGet(...)
               ELSE IF FindUserByEmail(users, body.email) # 0
                    THEN Reply(i, r, 400, [error |-> "User already exists"])
                    ELSE /\ UsersRoom                 \* await bcrypt.hash
                         /\ Suspend(i, [r EXCEPT !.pc = "reg_hash"])
    /\ UNCHANGED <<backend, store, now>>
    /\ UNCHANGED <<file, storageUp, client>>

\* the route, for a client the rate limiter passes: its count is far below
\* the limit and is left out
RegisterStart(i, body) == RegisterRoute(i, body) /\ UNCHANGED limiter

\* server.ts: the SELECT resolves
RegisterCheck(i) ==
    /\ reqs[i].pc = "reg_check"
    /\ storageUp                  \* the statement succeeds
    /\ LET r == reqs[i]
       IN IF FindUserByEmail(users, r.body.email) # 0
          THEN Reply(i, r, 400, [error |-> "User already exists"])
          ELSE Suspend(i, [r EXCEPT !.pc = "reg_hash"])      \* await bcrypt.hash
    /\ UNCHANGED <<backend, store, now>>
    /\ UNCHANGED <<file, env>>

\* the id of a new user is the number of users plus one
RegisterHashed_CountsUsers(i) ==
    /\ reqs[i].pc = "reg_hash"
    /\ LET r == reqs[i]
           hashed == BcryptHash(r.body.password, BcryptCost)
       IN IF backend = "sql"
          THEN /\ Suspend(i, [r EXCEPT !.pc = "reg_insert", !.hashed = hashed])
               /\ UNCHANGED store
          ELSE /\ LET id == Len(users) + 1
                  IN /\ lastId' = lastId
                     /\ users' = Append(users, User(id, r.body.email, r.body.name, hashed, now))
                     /\ Reply(i, r, 201, [token |-> JwtSign(id, r.body.email, JWT_SECRET, now),
                                          id |-> id])
               /\ UNCHANGED <<donations, conversions, media, campaigns>>
    /\ UNCHANGED <<backend, now>>
    /\ saveDatabase
    /\ UNCHANGED env

\* bcrypt.hash resolves; simple-server.ts creates the user and answers,
\* server.ts issues the INSERT
RegisterHashed(i) ==
    /\ reqs[i].pc = "reg_hash"
    /\ LET r == reqs[i]
           hashed == BcryptHash(r.body.password, BcryptCost)
       IN IF backend = "sql"
          THEN /\ Suspend(i, [r EXCEPT !.pc = "reg_insert", !.hashed = hashed])
               /\ UNCHANGED store
          ELSE /\ LET id == lastId + 1
                  IN /\ lastId' = id
                     /\ users' = Append(users, User(id, r.body.email, r.body.name, hashed, now))
                     /\ Reply(i, r, 201, [token |-> JwtSign(id, r.body.email, JWT_SECRET, now),
                                          id |-> id])
               /\ UNCHANGED <<donations, conversions, media, campaigns>>
    /\ UNCHANGED <<backend, now>>
    /\ saveDatabase
    /\ UNCHANGED env

\* server.ts: the INSERT runs
RegisterInsert(i) ==
    /\ reqs[i].pc = "reg_insert"
    /\ storageUp                  \* the statement succeeds
    /\ LET r == reqs[i]
       IN IF UniqueEmailViolated(users, r.body.email)
          THEN /\ Reply(i, r, 500, [error |-> "Internal server error"])
               /\ UNCHANGED store
          ELSE /\ LET id == NextRowId(users)
                  IN /\ users' = Append(users, User(id, r.body.email, r.body.name, r.hashed, now))
                     /\ Reply(i, r, 201, [token |-> JwtSign(id, r.body.email, JWT_SECRET, now),
                                          id |-> id])
               /\ UNCHANGED <<donations, conversions, media, campaigns, lastId>>
    /\ UNCHANGED <<backend, now>>
    /\ UNCHANGED <<file, env>>

(***************************************************************************)
(* POST /api/login                                                         *)
(***************************************************************************)
LoginValidation(body) ==
    IF FalsyStr(body.email) \/ FalsyStr(body.password)
    THEN "Email and password are required"
    ELSE ""

LoginRoute(i, body) ==
    /\ FreeSlot(i)
    /\ LET r == Request("login", NoHeader, body, "login_get", << >>, [nUsers |-> Len(users)])
           err == LoginValidation(body)
           k == FindUserByEmail(users, body.email)
       IN IF err # ""
          THEN Reply(i, r, 400, [error |-> err])
          ELSE IF backend = "sql"
               THEN Suspend(i, r)       \* await dbGet(...)
               ELSE IF k = 0
                    THEN Reply(i, r, 401, [error |-> "Invalid credentials"])
                    ELSE Suspend(i, [r EXCEPT !.pc = "login_compare", !.found = k])
    /\ UNCHANGED <<backend, store, now>>
    /\ UNCHANGED <<file, storageUp, client>>

\* the route, for a client the rate limiter passes: its count is far below
\* the limit and is left out
LoginStart(i, body) == LoginRoute(i, body) /\ UNCHANGED limiter

\* server.ts: the SELECT resolves
LoginGet(i) ==
    /\ reqs[i].pc = "login_get"
    /\ storageUp                  \* the statement succeeds
    /\ LET r == reqs[i]
           k == FindUserByEmail(users, r.body.email)
       IN IF k = 0
          THEN Reply(i, r, 401, [error |-> "Invalid credentials"])
          ELSE Suspend(i, [r EXCEPT !.pc = "login_compare", !.found = k])
    /\ UNCHANGED <<backend, store, now>>
    /\ UNCHANGED <<file, env>>

\* a wrong password is answered with a text of its own
LoginCompare_NamesPassword(i) ==
    /\ reqs[i].pc = "login_compare"
    /\ LET r == reqs[i]
           user == users[r.found]
       IN IF ~BcryptCompare(r.body.password, user.password)
          THEN Reply(i, r, 401, [error |-> "Invalid password"])
          ELSE Reply(i, r, 200, [token |-> JwtSign(user.id, user.email, JWT_SECRET, now),
                                 id |-> user.id])
    /\ UNCHANGED <<backend, store, now>>
    /\ UNCHANGED <<file, env>>

\* bcrypt.compare resolves
LoginCompare(i) ==
    /\ reqs[i].pc = "login_compare"
    /\ LET r == reqs[i]
           user == users[r.found]
       IN IF ~BcryptCompare(r.body.password, user.password)
          THEN Reply(i, r, 401, [error |-> "Invalid credentials"])
          ELSE Reply(i, r, 200, [token |-> JwtSign(user.id, user.email, JWT_SECRET, now),
                                 id |-> user.id])
    /\ UNCHANGED <<backend, store, now>>
    /\ UNCHANGED <<file, env>>

(***************************************************************************)
(* authenticateToken                                                       *)
(***************************************************************************)
\* The Authorization header is its words, as split(' ') yields them.  A
\* word is the scheme, a signed token, or other text.
SchemeWord == [w |-> "Bearer"]
TokenWord(token) == [w |-> "jwt", token |-> token]
TextWord == [w |-> "text"]

\* jwt.verify(word, secret) at time t: a word that is no token is malformed
VerifyWord(word, secret, t) == word.w = "jwt" /\ JwtVerify(word.token, secret, t)

\* the middleware passes a request with no token on
authenticateToken_NoTokenCheck(hdr, t) ==
    IF Len(hdr) >= 2 /\ ~VerifyWord(hdr[2], JWT_SECRET, t)
    THEN [status |-> 403, userId |-> 0]
    ELSE [status |-> 0, userId |-> IF Len(hdr) >= 2 THEN hdr[2].token.userId ELSE 0]

\* the middleware rejects a token the browser has discarded by a logout
authenticateToken_Revoking(hdr, t) ==
    IF Len(hdr) < 2
    THEN [status |-> 401, userId |-> 0]
    ELSE IF ~VerifyWord(hdr[2], JWT_SECRET, t) \/ hdr[2].token \in client.discarded
         THEN [status |-> 403, userId |-> 0]
         ELSE [status |-> 0, userId |-> hdr[2].token.userId]

\* the middleware: status 0 lets the handler run as the token's user
authenticateToken(hdr, t) ==
    IF Len(hdr) < 2                       \* authHeader && authHeader.split(' ')[1]
    THEN [status |-> 401, userId |-> 0]
    ELSE IF ~VerifyWord(hdr[2], JWT_SECRET, t)
         THEN [status |-> 403, userId |-> 0]
         ELSE [status |-> 0, userId |-> hdr[2].token.userId]

\* the routes each server registers behind authenticateToken
AuthenticatedRoutes(b) ==
    IF b = "sql"
    THEN {"dashboard", "donations", "conversions", "media", "campaigns"}
    ELSE {"dashboard", "donations"}

(***************************************************************************)
(* Queries of the records of one user.                                     *)
(***************************************************************************)
RecentLimit == 10

Min(a, b) == IF a <= b THEN a ELSE b

\* the filter keeps every record, whoever owns it
FilterByUser_AllUsers(table, uid) == table

\* table.filter(r => r.user_id === userId)
FilterByUser(table, uid) == SelectSeq(table, LAMBDA r : r.user_id = uid)

RECURSIVE ReduceAmount(_, _)
\* rows.reduce((sum, d) => sum + d.amount, 0), from row k down
ReduceAmount(rows, k) ==
    IF k = 0 THEN Num(0) ELSE Plus(ReduceAmount(rows, k - 1), rows[k].amount)

RECURSIVE ReduceReach(_, _)
\* rows.reduce((sum, m) => sum + m.reach_estimate, 0)
ReduceReach(rows, k) ==
    IF k = 0 THEN 0 ELSE ReduceReach(rows, k - 1) + rows[k].reach_estimate

\* SELECT COALESCE(SUM(amount), 0) FROM donations WHERE user_id = ?
SqlSumAmount(table, uid) ==
    LET rows == FilterByUser(table, uid) IN ReduceAmount(rows, Len(rows))

\* SELECT COALESCE(SUM(reach_estimate), 0) FROM media_shared WHERE user_id = ?
SqlSumReach(table, uid) ==
    LET rows == FilterByUser(table, uid) IN ReduceReach(rows, Len(rows))

\* SELECT COUNT(*) FROM t WHERE user_id = ?
SqlCount(table, uid) == Len(FilterByUser(table, uid))

\* the impact counts 364 animals a conversion
AnimalsImpact_364(conversionCount) == conversionCount * 364

AnimalsPerConversion == 365

\* conversionCount * 365
AnimalsImpact(conversionCount) == conversionCount * AnimalsPerConversion

Reverse(seq) == [k \in 1..Len(seq) |-> seq[Len(seq) + 1 - k]]

\* the first eleven are taken
RecentJson_Eleven(rows) == Reverse(SubSeq(rows, 1, Min(RecentLimit + 1, Len(rows))))

\* rows.slice(0, 10).reverse()
RecentJson(rows) == Reverse(SubSeq(rows, 1, Min(RecentLimit, Len(rows))))

\* the record's own date: conversion_date for a conversion, date otherwise
DateOf(r) == IF "conversion_date" \in DOMAIN r THEN r.conversion_date ELSE r.date

\* ORDER BY date DESC, created_at DESC: a comes before b.  Rows equal in
\* both come in an order the engine chooses: by rowid, upwards or downwards.
SqlBefore(a, b, tieUp) ==
    \/ DateOf(a) > DateOf(b)
    \/ DateOf(a) = DateOf(b) /\ a.created_at > b.created_at
    \/ DateOf(a) = DateOf(b) /\ a.created_at = b.created_at
         /\ (IF tieUp THEN a.id < b.id ELSE a.id > b.id)

RECURSIVE SqlOrdered(_, _)
\* the rows of the set S in the ORDER BY order
SqlOrdered(S, tieUp) ==
    IF S = {} THEN << >>
    ELSE LET first == CHOOSE a \in S : \A b \in S \ {a} : SqlBefore(a, b, tieUp)
         IN << first >> \o SqlOrdered(S \ {first}, tieUp)

\* SELECT * FROM t WHERE user_id = ? ORDER BY date DESC, created_at DESC LIMIT 10
SqlRecent(table, uid, tieUp) ==
    LET rows == FilterByUser(table, uid)
        ordered == SqlOrdered({rows[k] : k \in 1..Len(rows)}, tieUp)
    IN SubSeq(ordered, 1, Min(RecentLimit, Len(ordered)))

NoStats ==
    [totalDonations |-> Num(0), conversionCount |-> 0, mediaCount |-> 0,
     totalReach |-> 0, campaignCount |-> 0, animalsImpact |-> 0]
NoRecent == [donations |-> << >>, conversions |-> << >>, media |-> << >>, campaigns |-> << >>]

\* simple-server.ts: the stats of the dashboard of user uid
StatsJson(uid) ==
    LET userDonations == FilterByUser(donations, uid)
        userConversions == FilterByUser(conversions, uid)
        userMedia == FilterByUser(media, uid)
        userCampaigns == FilterByUser(campaigns, uid)
    IN [totalDonations |-> ReduceAmount(userDonations, Len(userDonations)),
        conversionCount |-> Len(userConversions),
        mediaCount |-> Len(userMedia),
        totalReach |-> ReduceReach(userMedia, Len(userMedia)),
        campaignCount |-> Len(userCampaigns),
        animalsImpact |-> AnimalsImpact(Len(userConversions))]

\* simple-server.ts: the recent lists of the dashboard of user uid
RecentListsJson(uid) ==
    [donations |-> RecentJson(FilterByUser(donations, uid)),
     conversions |-> RecentJson(FilterByUser(conversions, uid)),
     media |-> RecentJson(FilterByUser(media, uid)),
     campaigns |-> RecentJson(FilterByUser(campaigns, uid))]

\* server.ts: the stats of a dashboard at once, as its five queries yield
\* them when no write comes between them
StatsSql(uid) ==
    [totalDonations |-> SqlSumAmount(donations, uid),
     conversionCount |-> SqlCount(conversions, uid),
     mediaCount |-> SqlCount(media, uid),
     totalReach |-> SqlSumReach(media, uid),
     campaignCount |-> SqlCount(campaigns, uid),
     animalsImpact |-> AnimalsImpact(SqlCount(conversions, uid))]

\* what a dashboard of user uid reports when no other request runs
StatsNow(uid) == IF backend = "json" THEN StatsJson(uid) ELSE StatsSql(uid)

\* history of a request: the rows each table held when it arrived
TableSizes ==
    [donations |-> Len(donations), conversions |-> Len(conversions),
     media |-> Len(media), campaigns |-> Len(campaigns)]

(***************************************************************************)
(* GET /api/dashboard                                                      *)
(***************************************************************************)
DashboardSteps == 10     \* the awaits of the handler of server.ts

\* authenticateToken, then the handler up to its first await;
\* simple-server.ts has no await and answers at once
DashboardRoute(i, hdr) ==
    /\ FreeSlot(i)
    /\ LET auth == authenticateToken(hdr, now)
           r == Request("dashboard", hdr, << >>, "dash",
                        [userId |-> auth.userId, step |-> 1, stats |-> NoStats,
                         recent |-> NoRecent],
                        [sizes |-> TableSizes, at |-> now])
       IN IF auth.status # 0
          THEN Reply(i, r, auth.status, << >>)
          ELSE IF backend = "sql"
               THEN Suspend(i, r)
               ELSE IF FindUserById(users, auth.userId) = 0
                    THEN Reply(i, r, 404, [error |-> "User not found"])
                    ELSE Reply(i, r, 200, [stats |-> StatsJson(auth.userId),
                                           recent |-> RecentListsJson(auth.userId),
                                           id |-> auth.userId])
    /\ UNCHANGED <<backend, store, now>>
    /\ UNCHANGED <<file, storageUp, client>>

\* the route, for a client the rate limiter passes: its count is far below
\* the limit and is left out
DashboardStart(i, hdr) == DashboardRoute(i, hdr) /\ UNCHANGED limiter

\* server.ts: the query the handler awaits resolves, and the handler runs to
\* its next await; after the last one it answers.  tieUp is the order in
\* which the engine returns rows that are equal in the ORDER BY.
DashboardQuery(i, tieUp) ==
    /\ reqs[i].pc = "dash"
    /\ storageUp                  \* the statement succeeds
    /\ LET r == reqs[i]
           uid == r.userId
       IN CASE r.step = 1 ->
                 IF FindUserById(users, uid) = 0
                 THEN Reply(i, r, 404, [error |-> "User not found"])
                 ELSE Suspend(i, [r EXCEPT !.step = 2])
            [] r.step = 2 ->
                 Suspend(i, [r EXCEPT !.step = 3,
                               !.stats.totalDonations = SqlSumAmount(donations, uid)])
            [] r.step = 3 ->
                 Suspend(i, [r EXCEPT !.step = 4,
                               !.stats.conversionCount = SqlCount(conversions, uid)])
            [] r.step = 4 ->
                 Suspend(i, [r EXCEPT !.step = 5,
                               !.stats.mediaCount = SqlCount(media, uid)])
            [] r.step = 5 ->
                 Suspend(i, [r EXCEPT !.step = 6,
                               !.stats.totalReach = SqlSumReach(media, uid)])
            [] r.step = 6 ->
                 Suspend(i, [r EXCEPT !.step = 7,
                               !.stats.campaignCount = SqlCount(campaigns, uid)])
            [] r.step = 7 ->
                 Suspend(i, [r EXCEPT !.step = 8,
                               !.recent.donations = SqlRecent(donations, uid, tieUp)])
            [] r.step = 8 ->
                 Suspend(i, [r EXCEPT !.step = 9,
                               !.recent.conversions = SqlRecent(conversions, uid, tieUp)])
            [] r.step = 9 ->
                 Suspend(i, [r EXCEPT !.step = 10,
                               !.recent.media = SqlRecent(media, uid, tieUp)])
            [] r.step = DashboardSteps ->
                 Reply(i, r, 200,
                       [stats |-> [r.stats EXCEPT
                                     !.animalsImpact = AnimalsImpact(r.stats.conversionCount)],
                        recent |-> [r.recent EXCEPT
                                     !.campaigns = SqlRecent(campaigns, uid, tieUp)],
                        id |-> uid])
    /\ UNCHANGED <<backend, store, now>>
    /\ UNCHANGED <<file, env>>

(***************************************************************************)
(* POST /api/donations, /api/conversions, /api/media, /api/campaigns       *)
(***************************************************************************)
\* the check of the amount left out
PostValidation_NoAmount(route, body) ==
    CASE route = "donations" ->
            IF FalsyStr(body.organization) \/ Falsy(body.date)
            THEN "Organization, amount, and date are required" ELSE ""
      [] OTHER -> ""

\* the check of the required fields of each route, "" when it passes
PostValidation(route, body) ==
    CASE route = "donations" ->
            IF FalsyStr(body.organization) \/ Falsy(body.amount) \/ Falsy(body.date)
            THEN "Organization, amount, and date are required" ELSE ""
      [] route = "conversions" ->
            IF FalsyStr(body.person_name) \/ Falsy(body.conversion_date)
            THEN "Person name and conversion date are required" ELSE ""
      [] route = "media" ->
            IF FalsyStr(body.platform) \/ FalsyStr(body.content_type) \/ Falsy(body.date)
            THEN "Platform, content type, and date are required" ELSE ""
      [] route = "campaigns" ->
            IF FalsyStr(body.campaign_name) \/ FalsyStr(body.participation_type)
                  \/ Falsy(body.date)
            THEN "Campaign name, participation type, and date are required" ELSE ""

\* the row a handler builds from the body
BuildRow(route, body, id, uid, t) ==
    CASE route = "donations" ->
            Donation(id, uid, body.organization, ParseFloat(body.amount), body.date.d,
                     body.notes, t)
      [] route = "conversions" ->
            Conversion(id, uid, body.person_name, body.conversion_date.d,
                       body.influence_type, body.notes, t)
      [] route = "media" ->
            Media(id, uid, body.platform, body.content_type,
                  ParseIntOrZero(body.reach_estimate), body.date.d, body.url, body.notes, t)
      [] route = "campaigns" ->
            Campaign(id, uid, body.campaign_name, body.organization,
                     body.participation_type, body.date.d, body.impact_description, t)

TableOf(route) ==
    CASE route = "donations" -> donations
      [] route = "conversions" -> conversions
      [] route = "media" -> media
      [] route = "campaigns" -> campaigns

\* the row takes the place of the last row of its table
InsertRow_Overwrites(route, row) ==
    LET Put(table) == IF table = << >> THEN << row >> ELSE [table EXCEPT ![Len(table)] = row]
    IN /\ donations' = IF route = "donations" THEN Put(donations) ELSE donations
       /\ conversions' = IF route = "conversions" THEN Put(conversions) ELSE conversions
       /\ media' = IF route = "media" THEN Put(media) ELSE media
       /\ campaigns' = IF route = "campaigns" THEN Put(campaigns) ELSE campaigns

\* the table of the route gets the row, the others stay
InsertRow(route, row) ==
    /\ donations' = IF route = "donations" THEN Append(donations, row) ELSE donations
    /\ conversions' = IF route = "conversions" THEN Append(conversions, row) ELSE conversions
    /\ media' = IF route = "media" THEN Append(media, row) ELSE media
    /\ campaigns' = IF route = "campaigns" THEN Append(campaigns, row) ELSE campaigns

\* amount REAL NOT NULL: the engine stores NaN as NULL, so the INSERT fails
NotNullViolated(route, row) == route = "donations" /\ row.amount.nan

\* the rows of the four tables, and the requests in flight that are about
\* to add one
RowsTotal ==
    Len(donations) + Len(conversions) + Len(media) + Len(campaigns)
       + Cardinality({j \in Slots : reqs[j].pc = "post_insert"})

\* the handler validates the body before the token is looked at
PostRoute_ValidatesFirst(i, route, hdr, body, cap) ==
    /\ FreeSlot(i)
    /\ LET auth == authenticateToken(hdr, now)
           r == Request(route, hdr, body, "post_insert", [userId |-> auth.userId],
                        [sizes |-> TableSizes, at |-> now])
           err == PostValidation(route, body)
       IN IF route \notin AuthenticatedRoutes(backend)
          THEN Reply(i, r, 404, << >>) /\ UNCHANGED store
          ELSE IF err # ""
          THEN Reply(i, r, 400, [error |-> err]) /\ UNCHANGED store
          ELSE IF auth.status # 0
          THEN Reply(i, r, auth.status, << >>) /\ UNCHANGED store
          ELSE IF backend = "sql"
          THEN RowsTotal < cap /\ Suspend(i, r) /\ UNCHANGED store
          ELSE /\ RowsTotal < cap
               /\ lastId' = lastId + 1
               /\ InsertRow(route, BuildRow(route, body, lastId + 1, auth.userId, now))
               /\ users' = users
               /\ Reply(i, r, 201, [id |-> lastId + 1])
    /\ UNCHANGED <<backend, now>>
    /\ saveDatabase
    /\ UNCHANGED <<storageUp, client>>

\* authenticateToken, then the handler up to its first await (cap bounds
\* the rows of a run).  simple-server.ts registers the donations route alone and answers it
\* without an await; a path with no route gets the 404 of the framework.
PostRoute(i, route, hdr, body, cap) ==
    /\ FreeSlot(i)
    /\ LET auth == authenticateToken(hdr, now)
           r == Request(route, hdr, body, "post_insert", [userId |-> auth.userId],
                        [sizes |-> TableSizes, at |-> now])
           err == PostValidation(route, body)
       IN IF route \notin AuthenticatedRoutes(backend)
          THEN Reply(i, r, 404, << >>) /\ UNCHANGED store
          ELSE IF auth.status # 0
          THEN Reply(i, r, auth.status, << >>) /\ UNCHANGED store
          ELSE IF err # ""
          THEN Reply(i, r, 400, [error |-> err]) /\ UNCHANGED store
          ELSE IF backend = "sql"
          THEN RowsTotal < cap /\ Suspend(i, r) /\ UNCHANGED store    \* await dbRun(...)
          ELSE /\ RowsTotal < cap
               /\ lastId' = lastId + 1
               /\ InsertRow(route, BuildRow(route, body, lastId + 1, auth.userId, now))
               /\ users' = users
               /\ Reply(i, r, 201, [id |-> lastId + 1])
    /\ UNCHANGED <<backend, now>>
    /\ saveDatabase
    /\ UNCHANGED <<storageUp, client>>

\* the route, for a client the rate limiter passes: its count is far below
\* the limit and is left out
PostStart(i, route, hdr, body, cap) == PostRoute(i, route, hdr, body, cap) /\ UNCHANGED limiter

\* server.ts: the INSERT runs
PostInsert(i) ==
    /\ reqs[i].pc = "post_insert"
    /\ storageUp                  \* the statement succeeds
    /\ LET r == reqs[i]
           id == NextRowId(TableOf(r.route))
           row == BuildRow(r.route, r.body, id, r.userId, now)
       IN IF NotNullViolated(r.route, row)
          THEN Reply(i, r, 500, [error |-> "Internal server error"]) /\ UNCHANGED store
          ELSE /\ InsertRow(r.route, row)
               /\ Reply(i, r, 201, [id |-> id])
               /\ UNCHANGED <<users, lastId>>
    /\ UNCHANGED <<backend, now>>
    /\ UNCHANGED <<file, env>>

(***************************************************************************)
(* Storage failures and GET /api/health.                                   *)
(***************************************************************************)
\* the message of the error the driver raises when the database file cannot
\* be reached
StorageError == "SQLITE_CANTOPEN: unable to open database file"

\* the places at which a handler of server.ts awaits the database
StoragePcs == {"reg_check", "reg_insert", "login_get", "dash", "post_insert"}

\* server.ts: the statement a handler awaits fails; the catch block of the
\* handler answers
QueryFails(i) ==
    /\ reqs[i].pc \in StoragePcs
    /\ ~storageUp
    /\ Reply(i, reqs[i], 500, [error |-> "Internal server error"])
    /\ UNCHANGED <<backend, store, now>>
    /\ UNCHANGED <<file, env>>

\* GET /api/health up to await testConnection(); simple-server.ts has no
\* such route
HealthRoute(i) ==
    /\ FreeSlot(i)
    /\ LET r == Request("health", NoHeader, << >>, "health", << >>,
                        [sizes |-> TableSizes, at |-> now])
       IN IF backend = "sql" THEN Suspend(i, r) ELSE Reply(i, r, 404, << >>)
    /\ UNCHANGED <<backend, store, now>>
    /\ UNCHANGED <<file, storageUp, client>>

HealthStart(i) == HealthRoute(i) /\ UNCHANGED limiter

\* testConnection() resolves or throws
HealthCheck(i) ==
    /\ reqs[i].pc = "health"
    /\ IF storageUp
       THEN Reply(i, reqs[i], 200, [health |-> "healthy", database |-> "connected"])
       ELSE Reply(i, reqs[i], 500, [health |-> "unhealthy", database |-> "disconnected",
                                    error |-> StorageError])      \* error: error.message
    /\ UNCHANGED <<backend, store, now>>
    /\ UNCHANGED <<file, env>>

\* the storage stops answering: the database file or the document file
\* cannot be read or written
StorageFails ==
    /\ storageUp
    /\ storageUp' = FALSE
    /\ last' = NoResp
    /\ UNCHANGED <<backend, store, now, reqs, file, limiter, client>>

\* the storage answers again
StorageRecovers ==
    /\ ~storageUp
    /\ storageUp' = TRUE
    /\ last' = NoResp
    /\ UNCHANGED <<backend, store, now, reqs, file, limiter, client>>

(***************************************************************************)
(* The clock.                                                              *)
(***************************************************************************)
\* d days pass
Tick(d, limit) ==
    /\ now + d <= limit
    /\ now' = now + d
    /\ last' = NoResp
    /\ UNCHANGED <<backend, store, reqs>>
    /\ UNCHANGED <<file, env>>

(***************************************************************************)
(* The browser (AuthProvider).                                             *)
(***************************************************************************)
\* login and register of the client: the token of the response is kept
SetToken ==
    /\ last.status \in {200, 201}
    /\ last.route \in {"login", "register"}
    /\ client' = [client EXCEPT !.token = last.token]
    /\ last' = NoResp
    /\ UNCHANGED <<backend, store, now, reqs, file, storageUp, limiter>>

\* logout of the client: the token is removed from the browser (limit
\* bounds the tokens a run discards)
Logout(limit) ==
    /\ client.token # NoToken
    /\ Cardinality(client.discarded \cup {client.token}) <= limit
    /\ client' = [client EXCEPT !.token = NoToken,
                                 !.discarded = client.discarded \cup {client.token}]
    /\ last' = NoResp
    /\ UNCHANGED <<backend, store, now, reqs, file, storageUp, limiter>>

\* AuthPage.handleSubmit after login() or register() has returned false:
\* api.post has thrown the server's message or fetch has thrown, the catch
\* block of login/register has logged it, and the page sets its own text
FallbackText(route) == IF route = "login" THEN "Invalid credentials" ELSE "Registration failed"

\* the server has rejected the call of the auth page
HandleRejected ==
    /\ last.status \notin {0, 200, 201}
    /\ last.route \in {"login", "register"}
    /\ client' = [client EXCEPT !.error = FallbackText(last.route)]
    /\ last' = NoResp
    /\ UNCHANGED <<backend, store, now, reqs, file, storageUp, limiter>>

\* fetch itself throws: the call of the auth page reaches no server
FetchThrows(route) ==
    /\ last.status = 0
    /\ \A j \in Slots : reqs[j] = Idle
    /\ client' = [client EXCEPT !.error = FallbackText(route)]
    /\ last' = NoResp
    /\ UNCHANGED <<backend, store, now, reqs, file, storageUp, limiter>>

(***************************************************************************)
(* database.ts initializeDatabase, statement by statement.  A run of the   *)
(* script is a process of its own; it takes a slot like a request.         *)
(***************************************************************************)
\* the k-th sample row of initializeDatabase and the table it goes to
SampleAt(k) ==
    LET demo == initializeDatabase(now)
        d == Len(demo.donations)
        c == d + Len(demo.conversions)
        m == c + Len(demo.media)
    IN IF k <= d THEN [route |-> "donations", row |-> demo.donations[k]]
       ELSE IF k <= c THEN [route |-> "conversions", row |-> demo.conversions[k - d]]
       ELSE IF k <= m THEN [route |-> "media", row |-> demo.media[k - c]]
       ELSE [route |-> "campaigns", row |-> demo.campaigns[k - m]]

SampleCount ==
    LET demo == initializeDatabase(now)
    IN Len(demo.donations) + Len(demo.conversions) + Len(demo.media) + Len(demo.campaigns)

SeedPcs == {"seed_check", "seed_hash", "seed_user", "seed_rows"}

\* the process ends: it has finished, it has thrown, or it was killed
Exit(i) ==
    /\ reqs' = [reqs EXCEPT ![i] = Idle]
    /\ last' = NoResp

\* the script starts and awaits SELECT id FROM users WHERE email = ?
InitializeStart(i) ==
    /\ backend = "sql"
    /\ FreeSlot(i)
    /\ Suspend(i, Request("seed", NoHeader, << >>, "seed_check", [step |-> 1],
                          [sizes |-> TableSizes, at |-> now]))
    /\ UNCHANGED <<backend, store, now>>
    /\ UNCHANGED <<file, env>>

\* the run resumes where the stored sample rows end
InitializeCheck_Resumes(i) ==
    /\ reqs[i].pc = "seed_check"
    /\ storageUp
    /\ LET k == FindUserByEmail(users, DemoEmail)
       IN IF k # 0
          THEN Suspend(i, [reqs[i] EXCEPT !.pc = "seed_rows", !.userId = users[k].id,
                                          !.step = SqlCount(donations, users[k].id)
                                                     + SqlCount(conversions, users[k].id)
                                                     + SqlCount(media, users[k].id)
                                                     + SqlCount(campaigns, users[k].id) + 1])
          ELSE Suspend(i, [reqs[i] EXCEPT !.pc = "seed_hash"])
    /\ UNCHANGED <<backend, store, now>>
    /\ UNCHANGED <<file, env>>

\* the SELECT resolves: if (!demoUser) the run goes on, else it is done
InitializeCheck(i) ==
    /\ reqs[i].pc = "seed_check"
    /\ storageUp
    /\ IF FindUserByEmail(users, DemoEmail) # 0
       THEN Exit(i)
       ELSE Suspend(i, [reqs[i] EXCEPT !.pc = "seed_hash"])     \* await bcrypt.hash
    /\ UNCHANGED <<backend, store, now>>
    /\ UNCHANGED <<file, env>>

\* bcrypt.hash resolves and the INSERT of the demo user is issued
InitializeHashed(i) ==
    /\ reqs[i].pc = "seed_hash"
    /\ Suspend(i, [reqs[i] EXCEPT !.pc = "seed_user"])
    /\ UNCHANGED <<backend, store, now>>
    /\ UNCHANGED <<file, env>>

\* INSERT INTO users: it fails when the email is stored by now, and the run
\* throws; else userId = result.lastID
InitializeUser(i) ==
    /\ reqs[i].pc = "seed_user"
    /\ storageUp
    /\ IF UniqueEmailViolated(users, DemoEmail)
       THEN Exit(i) /\ UNCHANGED store
       ELSE /\ LET id == NextRowId(users)
               IN /\ users' = Append(users, [initializeDatabase(now).users[1] EXCEPT !.id = id])
                  /\ Suspend(i, [reqs[i] EXCEPT !.pc = "seed_rows", !.userId = id])
            /\ UNCHANGED <<donations, conversions, media, campaigns, lastId>>
    /\ UNCHANGED <<backend, now>>
    /\ UNCHANGED <<file, env>>

\* the next INSERT of a sample row runs; after the last one the run is done
InitializeRow(i) ==
    /\ reqs[i].pc = "seed_rows"
    /\ storageUp
    /\ LET r == reqs[i]
           sample == SampleAt(r.step)
           row == [sample.row EXCEPT !.id = NextRowId(TableOf(sample.route)),
                                     !.user_id = r.userId]
       IN IF r.step > SampleCount
          THEN Exit(i) /\ UNCHANGED store
          ELSE /\ InsertRow(sample.route, row)
               /\ Suspend(i, [r EXCEPT !.step = r.step + 1])
               /\ UNCHANGED <<users, lastId>>
    /\ UNCHANGED <<backend, now>>
    /\ UNCHANGED <<file, env>>

\* the process of a run is killed between two statements
Crash(i) ==
    /\ reqs[i].pc \in SeedPcs
    /\ Exit(i)
    /\ UNCHANGED <<backend, store, now>>
    /\ UNCHANGED <<file, env>>

(***************************************************************************)
(* The rate limiter, app.use(limiter) ahead of every route.                *)
(***************************************************************************)
RateMax == 100        \* max: 100

\* the limiter rejects the hit that brings the address to this many hits
Limited_AtMax(totalHits) == totalHits >= RateMax

\* totalHits > max
Limited(totalHits) == totalHits > RateMax

\* the store of the limiter counts the request of address addr (limit bounds
\* the hits of a run)
Increment(addr, limit) ==
    /\ limiter[addr].totalHits < limit
    /\ limiter' = [limiter EXCEPT ![addr].totalHits = @ + 1]

\* the limiter answers the request itself: next() is not called
TooManyRequests(i, route, hdr, body) ==
    /\ FreeSlot(i)
    /\ last' = Response(Request(route, hdr, body, "idle", << >>,
                                [sizes |-> TableSizes, at |-> now]),
                        429, [error |-> "Too many requests, please try again later."])
    /\ UNCHANGED <<backend, store, now, reqs, file, storageUp, client>>

\* windowMs have passed since the first hit of address addr in its window:
\* its count starts again (limit bounds the windows of a run)
WindowEnds(addr, limit) ==
    /\ limiter[addr].totalHits > 0
    /\ limiter[addr].windows < limit
    /\ limiter' = [limiter EXCEPT ![addr] = [totalHits |-> 0, windows |-> @.windows + 1]]
    /\ last' = NoResp
    /\ UNCHANGED <<backend, store, now, reqs, file, storageUp, client>>

\* a request of address addr arrives: the limiter counts it, and calls the
\* route or answers 429
LoginRequest(addr, limit, i, body) ==
    /\ Increment(addr, limit)
    /\ IF Limited(limiter[addr].totalHits + 1)
       THEN TooManyRequests(i, "login", NoHeader, body)
       ELSE LoginRoute(i, body)

DashboardRequest(addr, limit, i, hdr) ==
    /\ Increment(addr, limit)
    /\ IF Limited(limiter[addr].totalHits + 1)
       THEN TooManyRequests(i, "dashboard", hdr, << >>)
       ELSE DashboardRoute(i, hdr)

PostRequest(addr, limit, i, route, hdr, body, cap) ==
    /\ Increment(addr, limit)
    /\ IF Limited(limiter[addr].totalHits + 1)
       THEN TooManyRequests(i, route, hdr, body)
       ELSE PostRoute(i, route, hdr, body, cap)

(***************************************************************************)
(* Demo initialisation.                                                    *)
(***************************************************************************)
\* the rows a routine adds to the store as it finds it: simple-server.ts
\* numbers them on from lastId, database.ts gives the demo user the next id
\* of the users table (result.lastID) and each row the next id of its table
SeedRows(routine) ==
    LET demo == SeedData(routine, now)
        userId == IF backend = "json" THEN lastId + 1 ELSE NextRowId(users)
        Place(rows, table) ==
            [k \in 1..Len(rows) |->
                [rows[k] EXCEPT !.user_id = userId,
                                !.id = IF backend = "json" THEN rows[k].id + lastId
                                       ELSE Len(table) + k]]
    IN [users |-> << [demo.users[1] EXCEPT !.id = userId] >>,
        donations |-> Place(demo.donations, donations),
        conversions |-> Place(demo.conversions, conversions),
        media |-> Place(demo.media, media),
        campaigns |-> Place(demo.campaigns, campaigns),
        lastId |-> demo.lastId]

\* the routine does not look for the demo user
Seed_Unchecked(routine) ==
    /\ routine \in SeedingRoutines(backend)
    /\ \A j \in Slots : reqs[j] = Idle
    /\ LET demo == SeedRows(routine)
       IN /\ users' = users \o demo.users
          /\ donations' = donations \o demo.donations
          /\ conversions' = conversions \o demo.conversions
          /\ media' = media \o demo.media
          /\ campaigns' = campaigns \o demo.campaigns
          /\ lastId' = lastId + demo.lastId
    /\ last' = NoResp
    /\ UNCHANGED <<backend, now, reqs>>
    /\ saveDatabase
    /\ UNCHANGED env

\* a seeding routine runs on a store with no demo user; each runs to its
\* end before the server listens
Seed(routine) ==
    /\ routine \in SeedingRoutines(backend)
    /\ IF backend = "json" THEN users = << >>     \* db.users.length === 0
       ELSE FindUserByEmail(users, DemoEmail) = 0  \* SELECT ... WHERE email = ?
    /\ \A j \in Slots : reqs[j] = Idle
    /\ LET demo == SeedRows(routine)
       IN /\ users' = users \o demo.users
          /\ donations' = donations \o demo.donations
          /\ conversions' = conversions \o demo.conversions
          /\ media' = media \o demo.media
          /\ campaigns' = campaigns \o demo.campaigns
          /\ lastId' = lastId + demo.lastId
    /\ last' = NoResp
    /\ UNCHANGED <<backend, now, reqs>>
    /\ saveDatabase
    /\ UNCHANGED env

(***************************************************************************)
(* Registration and login, with requests interleaving.                     *)
(***************************************************************************)
Emails == {"", "alice@example.com", "bob@example.com"}
Names == {"", "Alice"}
Passwords == {"", "abc", "secret1", "hunter22"}

RegisterBodies == [email : Emails, name : Names, password : Passwords]
LoginBodies == [email : Emails, password : Passwords]

Init ==
    /\ backend \in Backends
    /\ users = DemoData(backend).users
    /\ donations = DemoData(backend).donations
    /\ conversions = DemoData(backend).conversions
    /\ media = DemoData(backend).media
    /\ campaigns = DemoData(backend).campaigns
    /\ lastId = DemoData(backend).lastId
    /\ now = 0
    /\ reqs = [i \in Slots |-> Idle]
    /\ last = NoResp
    /\ EnvInit

Next ==
    \/ \E i \in Slots, body \in RegisterBodies : RegisterStart(i, body)
    \/ \E i \in Slots : RegisterCheck(i)
    \/ \E i \in Slots : RegisterHashed(i)
    \/ \E i \in Slots : RegisterInsert(i)
    \/ \E i \in Slots, body \in LoginBodies : LoginStart(i, body)
    \/ \E i \in Slots : LoginGet(i)
    \/ \E i \in Slots : LoginCompare(i)

Spec == Init /\ [][Next]_vars

(***************************************************************************)
(* The data routes and the dashboard, with requests interleaving: the      *)
(* demo user and a second, registered user add records and read their      *)
(* dashboards.                                                             *)
(***************************************************************************)
MaxPosts == 1         \* rows the requests of a run add

\* the tokens the server has issued, or could have, up to now
IssuedTokens ==
    UNION {{JwtSign(users[k].id, users[k].email, JWT_SECRET, t) :
                t \in {users[k].created_at, now}} : k \in 1..Len(users)}

\* tokens signed by someone else
ForgedTokens ==
    {JwtSign(users[k].id, users[k].email, "guessed-secret", now) : k \in 1..Len(users)}

Headers ==
    {NoHeader, << SchemeWord >>, << SchemeWord, TextWord >>}
        \cup {<< SchemeWord, TokenWord(tok) >> : tok \in IssuedTokens \cup ForgedTokens}

DataHeaders == {<< SchemeWord, TokenWord(tok) >> : tok \in IssuedTokens}

\* a body with every field, and the bodies that lack one required field
DonationBody(amount) ==
    [organization |-> "X", amount |-> amount, date |-> JsDate(Today), notes |-> ""]
DonationBodies ==
    {DonationBody(a) : a \in {JsNumber(50), JsString(<< "2", "5" >>),
                              JsString(<< "a", "b", "c" >>), Undefined, JsNumber(0)}}
        \cup {[DonationBody(JsNumber(50)) EXCEPT !.organization = ""],
              [DonationBody(JsNumber(50)) EXCEPT !.date = Undefined]}

ConversionBody ==
    [person_name |-> "Pat", conversion_date |-> JsDate(Today), influence_type |-> "",
     notes |-> ""]
ConversionBodies ==
    {ConversionBody, [ConversionBody EXCEPT !.person_name = ""],
     [ConversionBody EXCEPT !.conversion_date = Undefined]}

MediaBody(reach) ==
    [platform |-> "Facebook", content_type |-> "Video", reach_estimate |-> reach,
     date |-> JsDate(Today), url |-> "", notes |-> ""]
MediaBodies ==
    {MediaBody(Undefined), MediaBody(JsNumber(100)),
     [MediaBody(Undefined) EXCEPT !.platform = ""]}

CampaignBody ==
    [campaign_name |-> "March", organization |-> "", participation_type |-> "Event",
     date |-> JsDate(Today), impact_description |-> ""]
CampaignBodies == {CampaignBody, [CampaignBody EXCEPT !.date = Undefined]}

\* the demo data, and the user a register request for alice@example.com
\* has created
InitData ==
    /\ backend \in Backends
    /\ LET demo == DemoData(backend)
           id == IF backend = "json" THEN demo.lastId + 1 ELSE NextRowId(demo.users)
       IN /\ users = Append(demo.users,
                            User(id, "alice@example.com", "Alice",
                                 BcryptHash("secret1", BcryptCost), 0))
          /\ donations = demo.donations
          /\ conversions = demo.conversions
          /\ media = demo.media
          /\ campaigns = demo.campaigns
          /\ lastId = IF backend = "json" THEN id ELSE demo.lastId
    /\ now = 0
    /\ reqs = [i \in Slots |-> Idle]
    /\ last = NoResp
    /\ EnvInit

\* the rows of the demo data
DemoRows(b) ==
    Len(DemoData(b).donations) + Len(DemoData(b).conversions) + Len(DemoData(b).media)
        + Len(DemoData(b).campaigns)

DataCap == DemoRows(backend) + MaxPosts

\* one dashboard at a time
OneDashboard == \A j \in Slots : reqs[j].pc # "dash"

NextData ==
    \/ \E i \in Slots, hdr \in DataHeaders, body \in DonationBodies :
          PostStart(i, "donations", hdr, body, DataCap)
    \/ \E i \in Slots, hdr \in DataHeaders, body \in ConversionBodies :
          PostStart(i, "conversions", hdr, body, DataCap)
    \/ \E i \in Slots, hdr \in DataHeaders, body \in MediaBodies :
          PostStart(i, "media", hdr, body, DataCap)
    \/ \E i \in Slots, hdr \in DataHeaders, body \in CampaignBodies :
          PostStart(i, "campaigns", hdr, body, DataCap)
    \/ \E i \in Slots : PostInsert(i)
    \/ \E i \in Slots, hdr \in DataHeaders : OneDashboard /\ DashboardStart(i, hdr)
    \/ \E i \in Slots, tieUp \in BOOLEAN : DashboardQuery(i, tieUp)

SpecData == InitData /\ [][NextData]_vars

(***************************************************************************)
(* Authentication: requests to the authenticated routes with every kind of *)
(* Authorization header, while the clock runs past the expiry of tokens.   *)
(***************************************************************************)
AuthCap == DemoRows(backend) + MaxPosts

\* one request at a time
Serial == \A j \in Slots : reqs[j] = Idle

NextAuth ==
    \/ \E i \in Slots, hdr \in Headers :
          Serial /\ PostStart(i, "donations", hdr, DonationBody(JsNumber(50)), AuthCap)
    \/ \E i \in Slots, hdr \in Headers :
          Serial /\ PostStart(i, "conversions", hdr, ConversionBody, AuthCap)
    \/ \E i \in Slots, hdr \in Headers :
          Serial /\ PostStart(i, "media", hdr, MediaBody(Undefined), AuthCap)
    \/ \E i \in Slots, hdr \in Headers :
          Serial /\ PostStart(i, "campaigns", hdr, CampaignBody, AuthCap)
    \/ \E i \in Slots : PostInsert(i)
    \/ \E i \in Slots, hdr \in Headers : Serial /\ DashboardStart(i, hdr)
    \/ \E i \in Slots : DashboardQuery(i, TRUE)
    \/ Tick(1, MaxClock)
    \/ Tick(TokenTTL, TokenTTL + MaxClock)

SpecAuth == InitData /\ [][NextAuth]_vars

(***************************************************************************)
(* The recent lists: both users have added records until a category holds  *)
(* more than the dashboard lists, with dates out of the order of insertion.*)
(***************************************************************************)
Prefilled == 9        \* rows of the demo user in a category at the start
MaxPostsRecent == 2   \* rows the requests of a run add

RecentDates == {TwoMonthsAgo, Today}
RecentDonation(d) == [DonationBody(JsNumber(50)) EXCEPT !.date = JsDate(d)]
RecentConversion(d) == [ConversionBody EXCEPT !.conversion_date = JsDate(d)]

RECURSIVE Posted(_, _, _, _, _, _)
\* the table of the route after k more requests of user uid, each answered
\* 201 before the next is sent
Posted(b, route, rows, lastid, uid, k) ==
    IF k <= 0 THEN rows
    ELSE LET id == IF b = "json" THEN lastid + 1 ELSE NextRowId(rows)
             body == IF route = "donations" THEN RecentDonation(LastMonth)
                     ELSE RecentConversion(LastMonth)
         IN Posted(b, route, Append(rows, BuildRow(route, body, id, uid, 0)),
                   lastid + 1, uid, k - 1)

\* the requests of the demo user that led to the start; the second user
\* has sent one for a donation
PostedDonations(b) == Prefilled - Len(DemoData(b).donations)
PostedConversions(b) ==
    IF b = "sql" THEN Prefilled - Len(DemoData(b).conversions) ELSE 0

InitRecent ==
    /\ backend \in Backends
    /\ LET demo == DemoData(backend)
           id == IF backend = "json" THEN demo.lastId + 1 ELSE NextRowId(demo.users)
           first == IF backend = "json" THEN id ELSE demo.lastId
           uid == demo.users[1].id
       IN /\ users = Append(demo.users,
                            User(id, "alice@example.com", "Alice",
                                 BcryptHash("secret1", BcryptCost), 0))
          /\ donations = Posted(backend, "donations",
                                Posted(backend, "donations", demo.donations, first, uid,
                                       PostedDonations(backend)),
                                first + PostedDonations(backend), id, 1)
          /\ conversions = Posted(backend, "conversions", demo.conversions, first, uid,
                                  PostedConversions(backend))
          /\ media = demo.media
          /\ campaigns = demo.campaigns
          /\ lastId = IF backend = "json" THEN first + PostedDonations(backend) + 1
                      ELSE demo.lastId
    /\ now = 0
    /\ reqs = [i \in Slots |-> Idle]
    /\ last = NoResp
    /\ EnvInit

RecentCap ==
    DemoRows(backend) + PostedDonations(backend) + 1 + PostedConversions(backend)
        + MaxPostsRecent

NextRecent ==
    \/ \E i \in Slots, hdr \in DataHeaders, d \in RecentDates :
          Serial /\ PostStart(i, "donations", hdr, RecentDonation(d), RecentCap)
    \/ \E i \in Slots, hdr \in DataHeaders, d \in RecentDates :
          Serial /\ PostStart(i, "conversions", hdr, RecentConversion(d), RecentCap)
    \/ \E i \in Slots : PostInsert(i)
    \/ \E i \in Slots, hdr \in DataHeaders : Serial /\ DashboardStart(i, hdr)
    \/ \E i \in Slots, tieUp \in BOOLEAN : DashboardQuery(i, tieUp)
    \/ Tick(1, MaxClock)

SpecRecent == InitRecent /\ [][NextRecent]_vars

(***************************************************************************)
(* Start on an empty store: demo initialisation, then logins and           *)
(* dashboards.                                                             *)
(***************************************************************************)
InitBoot ==
    /\ backend \in Backends
    /\ users = << >> /\ donations = << >> /\ conversions = << >>
    /\ media = << >> /\ campaigns = << >>
    /\ lastId = 0
    /\ now = 0
    /\ reqs = [i \in Slots |-> Idle]
    /\ last = NoResp
    /\ EnvInit

BootLoginBodies == [email : {DemoEmail, "alice@example.com"}, password : {DemoPassword, "secret1"}]

\* the server listens once the seeding is done
Listening == users # << >>

NextBoot ==
    \/ \E routine \in {"initializeDemoData", "initializeDatabase", "seedDatabase"} :
          Seed(routine)
    \/ \E i \in Slots, body \in BootLoginBodies : Listening /\ Serial /\ LoginStart(i, body)
    \/ \E i \in Slots : LoginGet(i)
    \/ \E i \in Slots : LoginCompare(i)
    \/ \E i \in Slots, hdr \in DataHeaders : Listening /\ Serial /\ DashboardStart(i, hdr)
    \/ \E i \in Slots, tieUp \in BOOLEAN : DashboardQuery(i, tieUp)
    \/ Tick(1, MaxClock)

SpecBoot == InitBoot /\ [][NextBoot]_vars

(***************************************************************************)
(* Sessions: users log in, the browser keeps and discards tokens, and      *)
(* requests carry the token the browser holds or one it has discarded.     *)
(***************************************************************************)
MaxLogouts == 1       \* tokens the browser discards

SessionLoginBodies ==
    {[email |-> DemoEmail, password |-> DemoPassword],
     [email |-> "alice@example.com", password |-> "secret1"],
     [email |-> "alice@example.com", password |-> "hunter22"]}
SessionRegisterBodies == {[email |-> "bob@example.com", name |-> "Bob", password |-> "hunter22"]}

\* the headers with a token the browser holds or has held
SessionHeaders ==
    {<< SchemeWord, TokenWord(tok) >> : tok \in (client.discarded \cup {client.token}) \ {NoToken}}

NextSession ==
    \/ \E i \in Slots, body \in SessionLoginBodies : Serial /\ LoginStart(i, body)
    \/ \E i \in Slots : LoginGet(i)
    \/ \E i \in Slots : LoginCompare(i)
    \/ \E i \in Slots, body \in SessionRegisterBodies : Serial /\ RegisterStart(i, body)
    \/ \E i \in Slots : RegisterCheck(i)
    \/ \E i \in Slots : RegisterHashed(i)
    \/ \E i \in Slots : RegisterInsert(i)
    \/ SetToken
    \/ Logout(MaxLogouts)
    \/ \E i \in Slots, hdr \in SessionHeaders :
          Serial /\ PostStart(i, "donations", hdr, DonationBody(JsNumber(50)), AuthCap)
    \/ \E i \in Slots, hdr \in SessionHeaders :
          Serial /\ PostStart(i, "conversions", hdr, ConversionBody, AuthCap)
    \/ \E i \in Slots, hdr \in SessionHeaders :
          Serial /\ PostStart(i, "media", hdr, MediaBody(Undefined), AuthCap)
    \/ \E i \in Slots, hdr \in SessionHeaders :
          Serial /\ PostStart(i, "campaigns", hdr, CampaignBody, AuthCap)
    \/ \E i \in Slots : PostInsert(i)
    \/ \E i \in Slots, hdr \in SessionHeaders : Serial /\ DashboardStart(i, hdr)
    \/ \E i \in Slots : DashboardQuery(i, TRUE)
    \/ Tick(TokenTTL, TokenTTL)

SpecSession == InitData /\ [][NextSession]_vars

(***************************************************************************)
(* The rate limit: one address sends more requests than the limit allows,  *)
(* a second address sends a few, and windows end.                          *)
(***************************************************************************)
MaxOver == 1          \* requests of the first address beyond the limit
MaxHitsOther == 1     \* requests of the second address
MaxWindows == 1       \* windows that end

HitLimit(addr) == IF addr = "10.0.0.1" THEN RateMax + MaxOver ELSE MaxHitsOther
WindowLimit(addr) == IF addr = "10.0.0.1" THEN MaxWindows ELSE 0

LimitLoginBodies == {[email |-> "alice@example.com", password |-> ""]}
LimitHeaders == {NoHeader} \cup DataHeaders

NextLimit ==
    \/ \E a \in Addresses, i \in Slots, body \in LimitLoginBodies :
          Serial /\ LoginRequest(a, HitLimit(a), i, body)
    \/ \E a \in Addresses, i \in Slots :
          Serial /\ DashboardRequest(a, HitLimit(a), i, NoHeader)
    \/ \E a \in Addresses, i \in Slots, hdr \in LimitHeaders :
          Serial /\ PostRequest(a, HitLimit(a), i, "donations", hdr,
                                DonationBody(JsNumber(50)), DataCap)
    \/ \E i \in Slots : PostInsert(i)
    \/ \E a \in Addresses : WindowEnds(a, WindowLimit(a))

SpecLimit == InitData /\ [][NextLimit]_vars

(***************************************************************************)
(* Amounts: donations with amounts of either sign, one request at a time.  *)
(***************************************************************************)
MaxPostsAmounts == 2  \* rows the requests of a run add

AmountBodies ==
    {DonationBody(a) : a \in {JsNumber(50), JsNumber(0), JsNumber(0 - 5), JsNumber(0 - 500),
                              JsString(<< "-", "5" >>)}}

AmountsCap == DemoRows(backend) + MaxPostsAmounts

NextAmounts ==
    \/ \E i \in Slots, hdr \in DataHeaders, body \in AmountBodies :
          Serial /\ PostStart(i, "donations", hdr, body, AmountsCap)
    \/ \E i \in Slots : PostInsert(i)
    \/ \E i \in Slots, hdr \in DataHeaders : Serial /\ DashboardStart(i, hdr)
    \/ \E i \in Slots : DashboardQuery(i, TRUE)

SpecAmounts == InitData /\ [][NextAmounts]_vars

(***************************************************************************)
(* Failures: the storage fails and recovers while users register, log in,  *)
(* add donations and read the dashboard and the health of the server.      *)
(***************************************************************************)
FaultRegisterBodies == {[email |-> "bob@example.com", name |-> "Bob", password |-> "hunter22"]}
FaultLoginBodies == {[email |-> "alice@example.com", password |-> "secret1"]}
FaultCap == DemoRows(backend) + MaxPosts

NextFault ==
    \/ \E i \in Slots, body \in FaultRegisterBodies : Serial /\ RegisterStart(i, body)
    \/ \E i \in Slots : RegisterCheck(i)
    \/ \E i \in Slots : RegisterHashed(i)
    \/ \E i \in Slots : RegisterInsert(i)
    \/ \E i \in Slots, body \in FaultLoginBodies : Serial /\ LoginStart(i, body)
    \/ \E i \in Slots : LoginGet(i)
    \/ \E i \in Slots : LoginCompare(i)
    \/ \E i \in Slots, hdr \in DataHeaders :
          Serial /\ PostStart(i, "donations", hdr, DonationBody(JsNumber(50)), FaultCap)
    \/ \E i \in Slots : PostInsert(i)
    \/ \E i \in Slots, hdr \in DataHeaders : Serial /\ DashboardStart(i, hdr)
    \/ \E i \in Slots : DashboardQuery(i, TRUE)
    \/ \E i \in Slots : Serial /\ HealthStart(i)
    \/ \E i \in Slots : HealthCheck(i)
    \/ \E i \in Slots : QueryFails(i)
    \/ StorageFails
    \/ StorageRecovers

SpecFault == InitData /\ [][NextFault]_vars

(***************************************************************************)
(* The auth page: the browser submits logins and registrations and shows   *)
(* what comes of them.                                                     *)
(***************************************************************************)
PageRegisterBodies ==
    {[email |-> "alice@example.com", name |-> "Alice", password |-> "secret1"],
     [email |-> "bob@example.com", name |-> "Bob", password |-> "abc"],
     [email |-> "bob@example.com", name |-> "Bob", password |-> "hunter22"]}
PageLoginBodies ==
    {[email |-> "alice@example.com", password |-> "secret1"],
     [email |-> "alice@example.com", password |-> "hunter22"],
     [email |-> "carol@example.com", password |-> "hunter22"]}

NextPage ==
    \/ \E i \in Slots, body \in PageRegisterBodies : Serial /\ RegisterStart(i, body)
    \/ \E i \in Slots : RegisterCheck(i)
    \/ \E i \in Slots : RegisterHashed(i)
    \/ \E i \in Slots : RegisterInsert(i)
    \/ \E i \in Slots, body \in PageLoginBodies : Serial /\ LoginStart(i, body)
    \/ \E i \in Slots : LoginGet(i)
    \/ \E i \in Slots : LoginCompare(i)
    \/ SetToken
    \/ HandleRejected
    \/ \E route \in {"login", "register"} : FetchThrows(route)

SpecPage == InitData /\ [][NextPage]_vars

(***************************************************************************)
(* The order of authentication and handler: requests with every kind of    *)
(* Authorization header and every kind of body, before and after the       *)
(* expiry of the tokens.                                                   *)
(***************************************************************************)
NextGate ==
    \/ \E i \in Slots, hdr \in Headers, body \in DonationBodies :
          Serial /\ PostStart(i, "donations", hdr, body, AuthCap)
    \/ \E i \in Slots, hdr \in Headers, body \in ConversionBodies :
          Serial /\ PostStart(i, "conversions", hdr, body, AuthCap)
    \/ \E i \in Slots, hdr \in Headers, body \in MediaBodies :
          Serial /\ PostStart(i, "media", hdr, body, AuthCap)
    \/ \E i \in Slots, hdr \in Headers, body \in CampaignBodies :
          Serial /\ PostStart(i, "campaigns", hdr, body, AuthCap)
    \/ \E i \in Slots : PostInsert(i)
    \/ \E i \in Slots, hdr \in Headers : Serial /\ DashboardStart(i, hdr)
    \/ \E i \in Slots : DashboardQuery(i, TRUE)
    \/ Tick(TokenTTL, TokenTTL)

SpecGate == InitData /\ [][NextGate]_vars

(***************************************************************************)
(* Refusals: every route, with bodies and headers the server accepts and   *)
(* bodies and headers it refuses, one request at a time.                   *)
(***************************************************************************)
RefusalRegisterBodies ==
    {[email |-> "alice@example.com", name |-> "Alice", password |-> "secret1"],
     [email |-> "bob@example.com", name |-> "Bob", password |-> "abc"],
     [email |-> "bob@example.com", name |-> "", password |-> "hunter22"],
     [email |-> "bob@example.com", name |-> "Bob", password |-> "hunter22"]}
RefusalLoginBodies ==
    {[email |-> "alice@example.com", password |-> "secret1"],
     [email |-> "alice@example.com", password |-> "hunter22"],
     [email |-> "alice@example.com", password |-> ""],
     [email |-> "bob@example.com", password |-> "secret1"],
     [email |-> "carol@example.com", password |-> "hunter22"]}
RefusalDonationBodies == {DonationBody(JsNumber(50)), DonationBody(Undefined)}
RefusalCap == DemoRows(backend) + MaxPosts

NextRefusal ==
    \/ \E i \in Slots, body \in RefusalRegisterBodies : Serial /\ RegisterStart(i, body)
    \/ \E i \in Slots : RegisterCheck(i)
    \/ \E i \in Slots : RegisterHashed(i)
    \/ \E i \in Slots : RegisterInsert(i)
    \/ \E i \in Slots, body \in RefusalLoginBodies : Serial /\ LoginStart(i, body)
    \/ \E i \in Slots : LoginGet(i)
    \/ \E i \in Slots : LoginCompare(i)
    \/ \E i \in Slots, hdr \in Headers, body \in RefusalDonationBodies :
          Serial /\ PostStart(i, "donations", hdr, body, RefusalCap)
    \/ \E i \in Slots, hdr \in Headers :
          Serial /\ PostStart(i, "conversions", hdr, ConversionBody, RefusalCap)
    \/ \E i \in Slots : PostInsert(i)
    \/ \E i \in Slots, hdr \in Headers : Serial /\ DashboardStart(i, hdr)
    \/ \E i \in Slots : DashboardQuery(i, TRUE)
    \/ \E i \in Slots : Serial /\ HealthStart(i)
    \/ \E i \in Slots : HealthCheck(i)

SpecRefusal == InitData /\ [][NextRefusal]_vars

(***************************************************************************)
(* Ids: demo initialisation on an empty store, then registrations and      *)
(* donations that interleave.                                              *)
(***************************************************************************)
IdsRegisterBodies ==
    {[email |-> "alice@example.com", name |-> "Alice", password |-> "secret1"],
     [email |-> "bob@example.com", name |-> "Bob", password |-> "hunter22"]}

MaxPostsIds == 2      \* rows the requests of a run add

\* simple-server.ts starts with no file
InitIds == InitBoot /\ backend = "json"

IdsCap == DemoRows("json") + MaxPostsIds

NextIds ==
    \/ Seed("initializeDemoData")
    \/ \E i \in Slots, body \in IdsRegisterBodies : Listening /\ RegisterStart(i, body)
    \/ \E i \in Slots : RegisterHashed(i)
    \/ \E i \in Slots, hdr \in DataHeaders :
          Listening /\ PostStart(i, "donations", hdr, DonationBody(JsNumber(50)), IdsCap)

SpecIds == InitIds /\ [][NextIds]_vars

(***************************************************************************)
(* Seeding again: the initialisation runs whenever no request is in        *)
(* flight, before and after a user has registered and added a donation.    *)
(***************************************************************************)
SeedRegisterBodies ==
    {[email |-> "alice@example.com", name |-> "Alice", password |-> "secret1"],
     [email |-> DemoEmail, name |-> "John", password |-> "hunter22"]}

\* the tokens of the users other than the demo user
SeedHeaders == {hdr \in DataHeaders : hdr[2].token.email # DemoEmail}

\* the rows of the demo user, and MaxPosts more
SeedCap ==
    LET Demo(table) == Cardinality({k \in 1..Len(table) :
                                       FindUserByEmail(users, DemoEmail) # 0
                                       /\ table[k].user_id = users[FindUserByEmail(users, DemoEmail)].id})
    IN Demo(donations) + Demo(conversions) + Demo(media) + Demo(campaigns) + MaxPosts

\* server.ts listens whether or not its database has been seeded;
\* simple-server.ts listens once initializeDemoData is done
Serving == backend = "sql" \/ Listening

NextSeed ==
    \/ \E routine \in {"initializeDemoData", "initializeDatabase", "seedDatabase"} :
          Seed(routine)
    \/ \E i \in Slots, body \in SeedRegisterBodies : Serving /\ RegisterStart(i, body)
    \/ \E i \in Slots : RegisterCheck(i)
    \/ \E i \in Slots : RegisterHashed(i)
    \/ \E i \in Slots : RegisterInsert(i)
    \/ \E i \in Slots, hdr \in SeedHeaders :
          Serving /\ PostStart(i, "donations", hdr, DonationBody(JsNumber(50)), SeedCap)
    \/ \E i \in Slots : PostInsert(i)

SpecSeed == InitBoot /\ [][NextSeed]_vars

(***************************************************************************)
(* Crashes of the initialisation of the relational database: runs of the   *)
(* script, one after another or two at once, each of which may be killed.  *)
(***************************************************************************)
InitCrash == InitBoot /\ backend = "sql"

NextCrash ==
    \/ \E i \in Slots : InitializeStart(i)
    \/ \E i \in Slots : InitializeCheck(i)
    \/ \E i \in Slots : InitializeHashed(i)
    \/ \E i \in Slots : InitializeUser(i)
    \/ \E i \in Slots : InitializeRow(i)
    \/ \E i \in Slots : Crash(i)

SpecCrash == InitCrash /\ [][NextCrash]_vars

(***************************************************************************)
(* Properties of registration and login.                                   *)
(***************************************************************************)
\* a step that answers a register request
RegisterAnswered == last'.status # 0 /\ last'.route = "register"

\* C1 as stated: once a register request with email e has been answered
\* 201, every later register request with email e is answered 400 with
\* the error 'User already exists' and creates no user, whatever name and
\* password it carries.
C1_DuplicateAlwaysNamed ==
    [][ (RegisterAnswered /\ last'.g.regBefore) =>
            /\ last'.status = 400
            /\ last'.error = "User already exists"
            /\ users' = users ]_vars

\* C1 as amended: once a register request with email e has been answered
\* 201, every later register request with email e is answered 400 and
\* creates no user; the error is 'User already exists' whenever the request
\* carries a name and a password of at least 6 characters (a request that
\* fails the validation of its body is answered with the validation error).
C1_DuplicateRejected ==
    [][ (RegisterAnswered /\ last'.g.regBefore) =>
            /\ last'.status = 400
            /\ users' = users
            /\ lastId' = lastId
            /\ (last'.body.name # "" /\ Len(last'.body.password) >= 6
                    => last'.error = "User already exists") ]_vars

\* a second registration of a stored email, with another password, was
\* answered with the duplicate error
C1_Witness ==
    /\ last.status = 400
    /\ last.route = "register"
    /\ last.g.regBefore
    /\ last.error = "User already exists"
    /\ \E k \in 1..Len(users) :
          users[k].email = last.body.email /\ users[k].password.of # last.body.password

\* C2: in every reachable state no two stored users have the same email,
\* for every interleaving of register requests.
C2_UniqueEmails ==
    \A j, k \in 1..Len(users) : j # k => users[j].email # users[k].email

\* C3: a register request whose password has fewer than 6 characters is
\* answered 400 and leaves the stored users and the id counter as they were.
C3_ShortPasswordRejected ==
    [][ (RegisterAnswered /\ Len(last'.body.password) < 6) =>
            /\ last'.status = 400
            /\ users' = users
            /\ lastId' = lastId ]_vars

\* a request with all three fields and a short password was rejected
C3_Witness ==
    /\ last.status = 400
    /\ last.route = "register"
    /\ last.body.email # "" /\ last.body.name # ""
    /\ last.body.password # "" /\ Len(last.body.password) < 6
    /\ last.error = "Password must be at least 6 characters"

\* C4: for every user created by a successful register(email, name,
\* password), a later login with the same email and password is answered
\* 200 with a token that carries the id and email of that user and that
\* the authentication step accepts.
C4_LoginAfterRegister ==
    (last.status # 0 /\ last.route = "login") =>
        \A k \in 1..last.g.nUsers :
            (/\ users[k].id # 1
             /\ users[k].email = last.body.email
             /\ users[k].password.of = last.body.password)
            => /\ last.status = 200
               /\ last.token.userId = users[k].id
               /\ last.token.email = users[k].email
               /\ JwtVerify(last.token, JWT_SECRET, now)

\* C4 on the relational server alone
C4_LoginAfterRegisterSql == backend = "sql" => C4_LoginAfterRegister

\* C2 on the relational server alone
C2_UniqueEmailsSql == backend = "sql" => C2_UniqueEmails

(***************************************************************************)
(* Properties of the dashboard statistics and of POST /api/donations.      *)
(***************************************************************************)
\* a step that answers a dashboard request with 200
DashboardAnswered == last.status = 200 /\ last.route = "dashboard"

\* the rows of user uid among the first n rows of a table
OwnedUpTo(table, n, uid) ==
    SelectSeq(SubSeq(table, 1, n), LAMBDA r : r.user_id = uid)

RECURSIVE SumOfAmounts(_)
\* the sum of the amounts of a sequence of donations; it is a number only
\* when every amount is
SumOfAmounts(rows) ==
    IF rows = << >> THEN Num(0)
    ELSE LET rest == SumOfAmounts(Tail(rows))
         IN IF Head(rows).amount.nan \/ rest.nan THEN NaN
            ELSE Num(Head(rows).amount.v + rest.v)

RECURSIVE DecimalValue(_)
\* the number a string of digits writes
DecimalValue(cs) ==
    IF cs = << >> THEN 0
    ELSE 10 * DecimalValue(SubSeq(cs, 1, Len(cs) - 1)) + DigitValue(cs[Len(cs)])

\* C5, first part: in every dashboard response totalDonations is the sum of
\* the amounts of the donations stored for the requesting user, at a moment
\* between the arrival of the request and its response.
C5_TotalIsSum ==
    DashboardAnswered =>
        \E n \in last.g.sizes.donations..Len(donations) :
            last.stats.totalDonations = SumOfAmounts(OwnedUpTo(donations, n, last.id))

\* a step that answers POST /api/donations with 201
DonationCreated == last'.status = 201 /\ last'.route = "donations"

UserIds == {users[k].id : k \in 1..Len(users)}

\* the user of a token the header carries
HeaderUser(hdr) == hdr[2].token.userId

\* C5: after a POST /api/donations answered 201, the dashboard of the user
\* reports a totalDonations that is a number and is larger than the one
\* before the request by exactly the amount of the request.
C5_TotalGrowsByAmount ==
    [][ DonationCreated =>
          \A uid \in UserIds : uid = HeaderUser(last'.hdr) =>
             LET before == StatsNow(uid).totalDonations
                 after == StatsNow(uid)'.totalDonations
                 amount == last'.body.amount
             IN /\ ~before.nan /\ ~after.nan
                /\ amount.t = "number" => after.v = before.v + amount.num.v
                /\ amount.t = "string" => after.v = before.v + DecimalValue(amount.chars) ]_vars

\* C5 on the relational server alone
C5_TotalGrowsByAmountSql ==
    [][ backend = "sql" => (DonationCreated =>
          \A uid \in UserIds : uid = HeaderUser(last'.hdr) =>
             LET before == StatsNow(uid).totalDonations
                 after == StatsNow(uid)'.totalDonations
                 amount == last'.body.amount
             IN /\ ~before.nan /\ ~after.nan
                /\ amount.t = "number" => after.v = before.v + amount.num.v
                /\ amount.t = "string" => after.v = before.v + DecimalValue(amount.chars)) ]_vars

\* C6: in every dashboard response animalsImpact is conversionCount * 365,
\* and conversionCount is the number of conversions stored for the
\* requesting user at a moment between the arrival of the request and its
\* response (0 for a user with none).
C6_AnimalsImpact ==
    DashboardAnswered =>
        /\ last.stats.animalsImpact = last.stats.conversionCount * 365
        /\ \E n \in last.g.sizes.conversions..Len(conversions) :
              last.stats.conversionCount = Len(OwnedUpTo(conversions, n, last.id))

\* a dashboard of the relational server that counts a conversion a request
\* has added to the eight of the demo data
C6_Witness ==
    /\ DashboardAnswered
    /\ backend = "sql"
    /\ last.stats.conversionCount = 9
    /\ last.stats.animalsImpact = 3285

\* a dashboard of a user with no conversion
C6_WitnessZero ==
    /\ DashboardAnswered
    /\ last.stats.conversionCount = 0
    /\ last.stats.animalsImpact = 0

(***************************************************************************)
(* Properties of the recent lists.                                         *)
(***************************************************************************)
Categories == {"donations", "conversions", "media", "campaigns"}

\* the rows of a category that user uid owns
Owned(cat, uid) ==
    LET rows == FilterByUser(TableOf(cat), uid) IN {rows[k] : k \in 1..Len(rows)}

\* C7: for every category and every user with n stored records of it, the
\* recent list of the user's dashboard has exactly min(10, n) entries, each
\* a different stored record the user owns, and never more than 10.
C7_RecentSize ==
    (last.status = 200 /\ last.route = "dashboard") =>
        \A cat \in Categories :
            LET list == last.recent[cat]
                owned == Owned(cat, last.id)
            IN /\ Len(list) = Min(RecentLimit, Cardinality(owned))
               /\ Len(list) <= RecentLimit
               /\ \A k \in 1..Len(list) : list[k] \in owned /\ list[k].user_id = last.id
               /\ \A j, k \in 1..Len(list) : j # k => list[j].id # list[k].id

\* a dashboard of a user with eleven donations lists ten of them, while
\* another user has donations too
C7_Witness ==
    /\ last.status = 200 /\ last.route = "dashboard"
    /\ Cardinality(Owned("donations", last.id)) = RecentLimit + 1
    /\ Len(last.recent.donations) = RecentLimit
    /\ \E k \in 1..Len(donations) : donations[k].user_id # last.id

\* a is more recent than b: by the record's own date, then by creation time
MoreRecent(a, b) ==
    \/ DateOf(a) > DateOf(b)
    \/ DateOf(a) = DateOf(b) /\ a.created_at > b.created_at

\* the list is in the order of C8 and no record left out is more recent
\* than a listed one
MostRecentFirst(list, owned) ==
    /\ \A j, k \in 1..Len(list) : j < k => ~MoreRecent(list[k], list[j])
    /\ \A r \in owned :
          (\A k \in 1..Len(list) : list[k] # r) =>
              \A k \in 1..Len(list) : ~MoreRecent(r, list[k])

\* C8 as stated: each recent list holds the user's 10 most recent records
\* of the category, by the record's own date descending and creation time
\* descending as tie-break, whatever the order of insertion.
C8_MostRecent ==
    (last.status = 200 /\ last.route = "dashboard") =>
        \A cat \in Categories : MostRecentFirst(last.recent[cat], Owned(cat, last.id))

\* C8 on the relational server alone
C8_MostRecentSql == backend = "sql" => C8_MostRecent

\* the request carries a token the authentication step accepts
Authenticated(hdr) == Len(hdr) >= 2 /\ hdr[2].w = "jwt" /\ hdr[2].token.key = JWT_SECRET
                        /\ now < hdr[2].token.exp

\* C10: an authenticated POST /api/donations in which organization, amount
\* or date is missing is answered 400 with the message naming the three
\* fields, and stores no donation.
C10_MissingFieldRejected ==
    [][ (/\ last'.status # 0
         /\ last'.route = "donations"
         /\ Authenticated(last'.hdr)
         /\ \/ last'.body.organization = ""
            \/ last'.body.amount.t = "undefined"
            \/ last'.body.date.t = "undefined")
        => /\ last'.status = 400
           /\ last'.error = "Organization, amount, and date are required"
           /\ donations' = donations
           /\ lastId' = lastId ]_vars

\* a donation with no amount, its other fields present, was rejected
C10_Witness ==
    /\ last.status = 400
    /\ last.route = "donations"
    /\ Authenticated(last.hdr)
    /\ last.body.amount.t = "undefined"
    /\ last.body.organization # "" /\ last.body.date.t = "date"
    /\ last.error = "Organization, amount, and date are required"

(***************************************************************************)
(* Properties of the authentication step.                                  *)
(***************************************************************************)
\* the header carries a token signed with the secret of the server
ValidlySigned(hdr) == Len(hdr) >= 2 /\ hdr[2].w = "jwt" /\ hdr[2].token.key = JWT_SECRET

C9_WitnessNoToken == last.status = 401 /\ last.route = "dashboard" /\ last.hdr = NoHeader

\* a request with an expired token of the server was answered 403
C9_WitnessExpired ==
    /\ last.status = 403
    /\ ValidlySigned(last.hdr)
    /\ now >= last.hdr[2].token.exp

\* a request with a valid token was answered by its handler
C9_WitnessAccepted == last.status = 201 /\ last.route = "media" /\ ValidlySigned(last.hdr)

(***************************************************************************)
(* Properties of the scope of the dashboard.                               *)
(***************************************************************************)
RECURSIVE SumOfReach(_)
\* the sum of the reach estimates of a sequence of media records
SumOfReach(rows) ==
    IF rows = << >> THEN 0 ELSE Head(rows).reach_estimate + SumOfReach(Tail(rows))

\* every statistic of a dashboard response covers the records of the
\* requesting user alone, as stored at a moment between the arrival of the
\* request and its response
StatsScoped ==
    DashboardAnswered =>
        /\ \E n \in last.g.sizes.donations..Len(donations) :
              last.stats.totalDonations = SumOfAmounts(OwnedUpTo(donations, n, last.id))
        /\ \E n \in last.g.sizes.conversions..Len(conversions) :
              last.stats.conversionCount = Len(OwnedUpTo(conversions, n, last.id))
        /\ \E n \in last.g.sizes.media..Len(media) :
              last.stats.mediaCount = Len(OwnedUpTo(media, n, last.id))
        /\ \E n \in last.g.sizes.media..Len(media) :
              last.stats.totalReach = SumOfReach(OwnedUpTo(media, n, last.id))
        /\ \E n \in last.g.sizes.campaigns..Len(campaigns) :
              last.stats.campaignCount = Len(OwnedUpTo(campaigns, n, last.id))

\* a step changes the statistics a dashboard of a user would report only by
\* creating a record for the user of its token
OwnDashboardOnly ==
    tables' # tables =>
        \A uid \in UserIds :
            StatsNow(uid)' # StatsNow(uid) =>
                /\ last'.status = 201
                /\ last'.route \in {"donations", "conversions", "media", "campaigns"}
                /\ HeaderUser(last'.hdr) = uid

\* C11: the statistics of a dashboard cover exactly the records whose
\* user_id is the id of the token's user, whatever other users have stored,
\* and a record created by one user changes no other user's dashboard.
C11_ScopedToUser == [][StatsScoped' /\ OwnDashboardOnly]_vars

\* a registered user who added one donation of 50 sees a total of 50 while
\* the demo user has donations of their own
C11_Witness ==
    /\ DashboardAnswered
    /\ last.id # 1
    /\ Len(OwnedUpTo(donations, Len(donations), last.id)) = 1
    /\ last.stats.totalDonations = Num(50)
    /\ Len(OwnedUpTo(donations, Len(donations), 1)) >= 3

(***************************************************************************)
(* Properties of the demo data.                                            *)
(***************************************************************************)
\* the statistics the README gives for the demo account
ReadmeDemoStats ==
    [totalDonations |-> Num(650), conversionCount |-> 8, mediaCount |-> 6,
     totalReach |-> 3200, campaignCount |-> 5, animalsImpact |-> 2920]

\* login with the demo account is answered 200, and a dashboard of the demo
\* user reports the statistics of the README
DemoAnswers ==
    /\ (last.status # 0 /\ last.route = "login"
          /\ last.body = [email |-> DemoEmail, password |-> DemoPassword])
        => last.status = 200
    /\ (DashboardAnswered /\ last.hdr[2].token.email = DemoEmail)
        => last.stats = ReadmeDemoStats

\* C12 as stated: after demo initialisation of an empty store, by whichever
\* seeding routine, login with johndoe@gmail.com / password123 is answered
\* 200 and the dashboard of that user reports conversionCount = 8,
\* animalsImpact = 2920, totalDonations = 650, mediaCount = 6,
\* totalReach = 3200 and campaignCount = 5.
C12_DemoDashboard == DemoAnswers

\* C12 for initializeDatabase of database.ts alone
C12_DemoDashboardInitializeDatabase ==
    (backend = "sql" /\ Len(users) = 1 /\ media = initializeDatabase(users[1].created_at).media)
        => DemoAnswers

\* a dashboard of the demo user after initializeDatabase
C12_WitnessInitializeDatabase ==
    /\ DashboardAnswered
    /\ backend = "sql" /\ media = initializeDatabase(users[1].created_at).media
    /\ last.stats = ReadmeDemoStats

(***************************************************************************)
(* Properties of the lifetime of a token.                                  *)
(***************************************************************************)
\* the days since the token of the header was issued, when the request
\* arrived
TokenAge(r) == r.g.at - r.hdr[2].token.iat

\* C13: on the authenticated routes a token of the server is accepted at
\* every time before 7 days have passed since it was issued and rejected
\* with 403 at every time after, and a request with an expired token never
\* reaches a handler.
C13_TokenLifetime ==
    /\ (/\ last.status # 0
        /\ last.route \in AuthenticatedRoutes(backend)
        /\ ValidlySigned(last.hdr))
        => /\ TokenAge(last) < 7 => last.status \notin {401, 403}
           /\ TokenAge(last) > 7 => last.status = 403
    /\ \A i \in Slots :
          (reqs[i] # Idle /\ reqs[i].route \in AuthenticatedRoutes(backend)) =>
              TokenAge(reqs[i]) <= 7

\* a token of the server was rejected more than 7 days after it was issued
C13_Witness ==
    /\ last.status = 403
    /\ last.route = "dashboard"
    /\ ValidlySigned(last.hdr)
    /\ TokenAge(last) > 7

\* a token of the server was accepted a day after it was issued
C13_WitnessAccepted ==
    /\ last.status = 200
    /\ last.route = "dashboard"
    /\ TokenAge(last) = 1

(***************************************************************************)
(* Properties of sessions.                                                 *)
(***************************************************************************)
\* the step answers a request that carries a token the browser had
\* discarded before
AnsweredAfterLogout ==
    /\ last'.status # 0
    /\ last'.route \in AuthenticatedRoutes(backend)
    /\ Len(last'.hdr) >= 2 /\ last'.hdr[2].w = "jwt"
    /\ last'.hdr[2].token \in client.discarded

\* C14: sessions are stateless.  The stored data changes only by a register
\* or data request answered 201, so register adds the user alone and login
\* adds nothing; a logout of the client changes no state of the server; and
\* a token discarded by a logout is accepted by every authenticated route
\* until 7 days have passed since it was issued.
C14_StatelessSessions ==
    [][ /\ store' # store =>
              /\ last'.status = 201
              /\ last'.route \in {"register", "donations", "conversions", "media", "campaigns"}
        /\ (last'.status = 201 /\ last'.route = "register") =>
              /\ Len(users') = Len(users) + 1
              /\ <<donations, conversions, media, campaigns>>'
                    = <<donations, conversions, media, campaigns>>
        /\ client'.discarded # client.discarded =>
              UNCHANGED <<backend, store, file, now, reqs, storageUp, limiter>>
        /\ (AnsweredAfterLogout /\ TokenAge(last') < 7) =>
              last'.status \notin {401, 403} ]_vars

\* a dashboard was answered for a token the browser had discarded
C14_Witness ==
    /\ last.status = 200
    /\ last.route = "dashboard"
    /\ last.hdr[2].token \in client.discarded

(***************************************************************************)
(* Properties of the rate limit.                                           *)
(***************************************************************************)
\* a step in which a request arrives: it is answered at once, or it is
\* taken into a slot
Arrives ==
    \/ last'.status # 0 /\ reqs' = reqs
    \/ \E i \in Slots : reqs[i] = Idle /\ reqs'[i] # Idle

\* C15: every request that arrives is counted for exactly one address, and
\* no other address's count changes; a request that is among the first 100
\* of its address in the window is passed on to its route, and every further
\* one is answered 429 with no handler started and the store and the file
\* unchanged, whatever it carries; the count of a new window starts at zero.
C15_RateLimit ==
    [][ /\ Arrives =>
              \E a \in Addresses :
                  /\ limiter'[a].totalHits = limiter[a].totalHits + 1
                  /\ \A b \in Addresses \ {a} : limiter'[b] = limiter[b]
                  /\ limiter[a].totalHits < RateMax => last'.status # 429
                  /\ limiter[a].totalHits >= RateMax =>
                        /\ last'.status = 429
                        /\ UNCHANGED <<store, file, reqs>>
        /\ \A a \in Addresses :
              limiter'[a].windows # limiter[a].windows =>
                  /\ limiter'[a].totalHits = 0
                  /\ \A b \in Addresses \ {a} : limiter'[b] = limiter[b] ]_vars

\* in its second window the first address has had a request with a valid
\* token and a valid body rejected, after 100 were passed on, while the
\* second address has sent one request
C15_Witness ==
    /\ last.status = 429
    /\ last.route = "donations"
    /\ last.hdr \in DataHeaders
    /\ limiter["10.0.0.1"] = [totalHits |-> RateMax + 1, windows |-> 1]
    /\ limiter["10.0.0.2"].totalHits = 1

\* the 100th request of a window was passed on and has stored a record
C15_WitnessPassed ==
    /\ last.status = 201
    /\ last.route = "donations"
    /\ limiter["10.0.0.1"].totalHits = RateMax

(***************************************************************************)
(* Equivalence of the two servers.                                         *)
(***************************************************************************)
\* the recent list of a category that server b computes for user uid from
\* the stored data
RecentOf(b, cat, uid, tieUp) ==
    IF b = "json" THEN RecentJson(FilterByUser(TableOf(cat), uid))
    ELSE SqlRecent(TableOf(cat), uid, tieUp)

\* the stats that server b computes for user uid from the stored data
StatsOf(b, uid) == IF b = "json" THEN StatsJson(uid) ELSE StatsSql(uid)

\* the status with which server b answers an authenticated request that adds
\* a donation
DonationStatusOf(b, body, uid) ==
    IF PostValidation("donations", body) # "" THEN 400
    ELSE IF b = "sql" /\ NotNullViolated("donations", BuildRow("donations", body, 0, uid, now))
         THEN 500
         ELSE 201

\* C16: with one request at a time, whichever server answers, the other
\* server answers the same request from the same stored data alike: a
\* dashboard has the stats and, category by category, the recent list in
\* the order of the other server, and a request that adds a donation has the
\* other server's status.
C16_BackendsEquivalent ==
    /\ (last.status = 200 /\ last.route = "dashboard") =>
          \A b \in Backends :
              /\ last.stats = StatsOf(b, last.id)
              /\ \A cat \in Categories :
                    \E tieUp \in BOOLEAN : last.recent[cat] = RecentOf(b, cat, last.id, tieUp)
    /\ (last.status \in {201, 400, 500} /\ last.route = "donations") =>
          \A b \in Backends : last.status = DonationStatusOf(b, last.body, HeaderUser(last.hdr))

\* C16 for the server that answers: the operators above are what it does
C16_OwnAnswer ==
    /\ (last.status = 200 /\ last.route = "dashboard") =>
          /\ last.stats = StatsOf(backend, last.id)
          /\ \A cat \in Categories :
                \E tieUp \in BOOLEAN : last.recent[cat] = RecentOf(backend, cat, last.id, tieUp)
    /\ (last.status \in {201, 400, 500} /\ last.route = "donations") =>
          last.status = DonationStatusOf(backend, last.body, HeaderUser(last.hdr))

(***************************************************************************)
(* Properties of the conversions, media and campaigns routes.              *)
(***************************************************************************)
OtherRoutes == {"conversions", "media", "campaigns"}

\* the statistic that counts the records of a route
CountOf(stats, route) ==
    CASE route = "conversions" -> stats.conversionCount
      [] route = "media" -> stats.mediaCount
      [] route = "campaigns" -> stats.campaignCount

\* the reach estimate a body submits, 0 when it has none
SubmittedReach(route, body) ==
    IF route = "media" /\ body.reach_estimate.t = "number" THEN body.reach_estimate.num.v
    ELSE 0

\* a step that answers an authenticated POST to one of the three routes
\* whose body has the required fields
OtherAnswered ==
    /\ last'.status # 0
    /\ last'.route \in OtherRoutes
    /\ Authenticated(last'.hdr)
    /\ PostValidation(last'.route, last'.body) = ""

\* the step has answered 201 with the id of a record it has added for the
\* user of the token, and the user's stats have changed accordingly
OtherCreated(route, uid) ==
    LET before == StatsNow(uid)
        after == StatsNow(uid)'
        table == TableOf(route)
    IN /\ last'.status = 201
       /\ Len(table') = Len(table) + 1
       /\ table'[Len(table')].id = last'.id
       /\ table'[Len(table')].user_id = uid
       /\ \A k \in 1..Len(table) : table'[k] = table[k]
       /\ \A other \in Categories \ {route} : TableOf(other)' = TableOf(other)
       /\ CountOf(after, route) = CountOf(before, route) + 1
       /\ after.totalReach = before.totalReach + SubmittedReach(route, last'.body)
       /\ after.totalDonations = before.totalDonations
       /\ \A other \in OtherRoutes \ {route} : CountOf(after, other) = CountOf(before, other)
       /\ after.animalsImpact =
             before.animalsImpact + (IF route = "conversions" THEN AnimalsPerConversion ELSE 0)

\* C17: an authenticated POST to /api/conversions, /api/media or
\* /api/campaigns with its required fields present is answered 201 with the
\* id of the new record and adds exactly one record owned by the user of
\* the token: the count of the route grows by one, totalReach by the
\* submitted reach estimate (0 when omitted), and nothing else changes.
C17_RecordCreated ==
    [][ OtherAnswered =>
          \A route \in OtherRoutes, uid \in UserIds :
              (route = last'.route /\ uid = HeaderUser(last'.hdr)) => OtherCreated(route, uid) ]_vars

\* C17 on the relational server alone
C17_RecordCreatedSql ==
    [][ (backend = "sql" /\ OtherAnswered) =>
          \A route \in OtherRoutes, uid \in UserIds :
              (route = last'.route /\ uid = HeaderUser(last'.hdr)) => OtherCreated(route, uid) ]_vars

\* the relational server has stored a media record with a reach estimate
C17_WitnessSql ==
    /\ backend = "sql"
    /\ last.status = 201 /\ last.route = "media"
    /\ last.body.reach_estimate.t = "number"
    /\ media[Len(media)].id = last.id

(***************************************************************************)
(* Properties of the stored amounts.                                       *)
(***************************************************************************)
\* the number is below 0 (NaN is not)
Negative(x) == ~x.nan /\ x.v < 0

\* C18: no stored donation has an amount below 0, and no user's
\* totalDonations, stored or reported by a dashboard, is negative.
C18_NonNegativeAmounts ==
    /\ \A k \in 1..Len(donations) : ~Negative(donations[k].amount)
    /\ \A uid \in UserIds : ~Negative(StatsNow(uid).totalDonations)
    /\ DashboardAnswered => ~Negative(last.stats.totalDonations)

\* C18 for the amounts alone that are above 0 when they are submitted
C18_PositiveStaysPositive ==
    [][ (DonationCreated /\ ~Negative(ParseFloat(last'.body.amount))) =>
            ~Negative(donations'[Len(donations')].amount) ]_vars

(***************************************************************************)
(* Properties of the error responses.                                      *)
(***************************************************************************)
GenericMessages == {"Internal server error"}

\* C19: every response with status 500, of every route, GET /api/health
\* with the storage unreachable included, carries a generic message and not
\* the text of the underlying error.
C19_GenericErrors ==
    last.status = 500 => (last.error \in GenericMessages /\ last.error # StorageError)

\* C19 for every route but GET /api/health
C19_GenericErrorsButHealth ==
    (last.status = 500 /\ last.route # "health") =>
        (last.error \in GenericMessages /\ last.error # StorageError)

\* a request that adds a donation has failed at the storage and was answered
\* with the generic message
C19_WitnessDonation ==
    /\ last.status = 500 /\ last.route = "donations"
    /\ ~storageUp
    /\ last.error = "Internal server error"

(***************************************************************************)
(* Properties of persistence.                                              *)
(***************************************************************************)
\* what the storage holds: the tables of the database of server.ts, the
\* document in the file of simple-server.ts
Persisted == IF backend = "json" THEN file ELSE Document

HasId(table, id) == \E k \in 1..Len(table) : table[k].id = id

\* C20: a register or add-donation request is answered 201 only if its
\* record is in the storage (the rewritten file, on the flat-document
\* server), and never while the storage fails: a failure is answered 500.
C20_PersistedBeforeCreated ==
    /\ (last.status = 201 /\ last.route = "register") =>
          (storageUp /\ HasId(Persisted.users, last.id))
    /\ (last.status = 201 /\ last.route = "donations") =>
          (storageUp /\ HasId(Persisted.donations, last.id))

\* C20 on the relational server alone
C20_PersistedBeforeCreatedSql == backend = "sql" => C20_PersistedBeforeCreated

\* the relational server has answered a registration 500 because its INSERT
\* failed, and no user was stored
C20_WitnessSql ==
    /\ backend = "sql"
    /\ last.status = 500 /\ last.route = "register"
    /\ ~storageUp
    /\ FindUserByEmail(users, last.body.email) = 0

(***************************************************************************)
(* Properties of the auth page.                                            *)
(***************************************************************************)
\* a step in which the auth page shows a text for a call the server has
\* rejected
ShowsRejected ==
    /\ last.status \notin {0, 200, 201}
    /\ last.route \in {"login", "register"}
    /\ last' = NoResp
    /\ reqs' = reqs

\* C21: when the server rejects a login or register call with a message,
\* the auth page shows that message; it shows the fallback of the call only
\* when no response has come.
C21_ServerTextShown ==
    [][ ShowsRejected => client'.error = last.error ]_vars

\* C21 as the page does it: the text shown is the fallback of the call,
\* whatever the server has said
C21_FallbackShown ==
    [][ ShowsRejected => client'.error = FallbackText(last.route) ]_vars

(***************************************************************************)
(* Properties of the order of authentication and handler.                  *)
(***************************************************************************)
\* at time t the header carries no token the authentication step accepts
FailsAuthentication(hdr, t) == ~ValidlySigned(hdr) \/ t >= hdr[2].token.exp

\* C22: on a route a server registers behind the authentication step, a
\* request that fails authentication is answered 401 or 403 at once,
\* whatever its body is: never 400 and with no validation message, the
\* store and the file stay as they were, and the request never becomes a
\* handler in flight.
C22_AuthenticationFirst ==
    [][ /\ (/\ last'.status # 0
            /\ last'.route \in AuthenticatedRoutes(backend)
            /\ FailsAuthentication(last'.hdr, last'.g.at))
           => /\ last'.status \in {401, 403}
              /\ last'.error = ""
              /\ UNCHANGED <<store, file, reqs>>
        /\ \A i \in Slots :
              (reqs'[i] # Idle /\ reqs'[i].route \in AuthenticatedRoutes(backend)) =>
                  ~FailsAuthentication(reqs'[i].hdr, reqs'[i].g.at) ]_vars

\* a request without a token and without an amount was answered 401
C22_Witness ==
    /\ last.status = 401
    /\ last.route = "donations"
    /\ last.hdr = NoHeader
    /\ last.body.amount.t = "undefined"

\* a request with an expired token and without a date was answered 403
C22_WitnessExpired ==
    /\ last.status = 403
    /\ last.route = "donations"
    /\ ValidlySigned(last.hdr) /\ last.g.at >= last.hdr[2].token.exp
    /\ last.body.date.t = "undefined"

(***************************************************************************)
(* Properties of the ids of the flat-document server.                      *)
(***************************************************************************)
IdsOf(table) == {table[k].id : k \in 1..Len(table)}

\* the ids of the stored users and records of every entity
StoredIds ==
    IdsOf(users) \cup IdsOf(donations) \cup IdsOf(conversions) \cup IdsOf(media)
        \cup IdsOf(campaigns)

StoredCount == Len(users) + Len(donations) + Len(conversions) + Len(media) + Len(campaigns)

\* C23: on the flat-document server, after every step of seeding, register
\* and add-donation requests, the ids of all stored users and records are
\* pairwise distinct and at most lastId, lastId has not decreased, and every
\* id the step has assigned is greater than every id assigned before.
C23_UniqueMonotonicIds ==
    [][ backend = "json" =>
          /\ Cardinality(StoredIds') = StoredCount'
          /\ \A id \in StoredIds' : id <= lastId'
          /\ lastId' >= lastId
          /\ \A new \in StoredIds' \ StoredIds : new > lastId /\ \A old \in StoredIds : new > old
      ]_vars

\* after the demo initialisation, a registration and a donation of the new
\* user have been stored on the flat-document server
C23_Witness ==
    /\ backend = "json"
    /\ Len(users) >= 2
    /\ Len(donations) = 4
    /\ donations[4].user_id = users[2].id
    /\ donations[4].id > users[2].id
    /\ \E i \in Slots : reqs[i].pc = "reg_hash"

(***************************************************************************)
(* Properties of the lifetime of stored data.                              *)
(***************************************************************************)
\* every row of the table before the step is a row of the table after it,
\* with the same fields, and no user has fewer rows
Kept(before, after) ==
    /\ \A k \in 1..Len(before) : \E j \in 1..Len(after) : after[j] = before[k]
    /\ Len(after) >= Len(before)
    /\ \A uid \in UserIds :
          Cardinality({j \in 1..Len(after) : after[j].user_id = uid})
             >= Cardinality({k \in 1..Len(before) : before[k].user_id = uid})

\* C24: every step keeps every stored user and every stored donation,
\* conversion, media share and campaign participation with its field values
\* and its owner, so that no count of a user ever decreases.
C24_AppendOnly ==
    [][ /\ \A k \in 1..Len(users) : \E j \in 1..Len(users') : users'[j] = users[k]
        /\ Kept(donations, donations')
        /\ Kept(conversions, conversions')
        /\ Kept(media, media')
        /\ Kept(campaigns, campaigns') ]_vars

\* a user registered, logged in and added a conversion to the stored data,
\* which are all still there
C24_Witness ==
    /\ last.status = 201 /\ last.route = "conversions"
    /\ Len(users) = 3
    /\ HeaderUser(last.hdr) = users[3].id
    /\ conversions[Len(conversions)].user_id = users[3].id

(***************************************************************************)
(* Properties of the demo initialisation.                                  *)
(***************************************************************************)
\* the stored users with the email of the demo user
DemoUsers == {k \in 1..Len(users) : users[k].email = DemoEmail}

\* C25: the store never holds more than one demo user, and a step that
\* starts from a store with a demo user adds neither a demo user nor sample
\* records: the only rows it can add are the one row of a request.
C25_SeedingIdempotent ==
    [][ /\ Cardinality(DemoUsers') <= 1
        /\ DemoUsers # {} =>
              /\ DemoUsers' = DemoUsers
              /\ StoredCount' <= StoredCount + 1
              /\ \A k \in 1..Len(users') :
                    users'[k].email = DemoEmail => users'[k] = users[k] ]_vars

\* the relational store was seeded after a user had registered, and the
\* user has then added a donation
C25_Witness ==
    /\ backend = "sql"
    /\ Len(users) = 2 /\ users[2].email = DemoEmail
    /\ last.status = 201 /\ last.route = "donations"

(***************************************************************************)
(* Properties of an interrupted initialisation.                            *)
(***************************************************************************)
\* the demo user is stored and no run is past its check for the demo user
Settled ==
    /\ DemoUsers # {}
    /\ \A i \in Slots : reqs[i].pc \notin {"seed_hash", "seed_user", "seed_rows"}

\* the sample rows stored are the first ones of the sequence: a table has
\* rows only when the tables before it are complete
SamplePrefix ==
    LET demo == initializeDatabase(now)
    IN /\ Len(conversions) > 0 => Len(donations) = Len(demo.donations)
       /\ Len(media) > 0 => Len(conversions) = Len(demo.conversions)
       /\ Len(campaigns) > 0 => Len(media) = Len(demo.media)
       /\ Len(donations) <= Len(demo.donations)
       /\ Len(conversions) <= Len(demo.conversions)
       /\ Len(media) <= Len(demo.media)
       /\ Len(campaigns) <= Len(demo.campaigns)

\* C26: the sample rows stored are always a prefix of the sequence, and once
\* the demo user is stored and the run that stored it has ended or was
\* killed, the store stays as it is, whatever runs of the initialisation
\* follow: missing sample rows are never added.
C26_PartialSeedStays ==
    [][ /\ Settled => (Settled' /\ store' = store)
        /\ SamplePrefix' ]_vars

\* a run was killed after some sample rows, a later run has found the demo
\* user and has ended, and the sample rows are still a proper prefix
C26_Witness ==
    /\ Settled
    /\ \A i \in Slots : reqs[i] = Idle
    /\ Len(donations) = Len(initializeDatabase(now).donations)
    /\ Len(conversions) = 1
    /\ Len(media) = 0 /\ Len(campaigns) = 0
    /\ SamplePrefix

(***************************************************************************)
(* Properties of registrations that interleave.                            *)
(***************************************************************************)
\* a step that answers a valid register request whose email a stored user
\* holds when the step is taken
DuplicateAnswered ==
    /\ RegisterAnswered
    /\ RegisterValidation(last'.body) = ""
    /\ FindUserByEmail(users, last'.body.email) # 0

\* C27: a register request for an email that a stored user holds at the
\* moment the request would insert is answered 400 and adds no user, also
\* when it has passed its own existence check before the other user was
\* stored.
C27_DuplicateIs400 ==
    [][ DuplicateAnswered => (last'.status = 400 /\ users' = users) ]_vars

\* C27 without the status: no server stores a second user with the email
C27_DuplicateNotStored ==
    [][ DuplicateAnswered => users' = users ]_vars

\* C27 for requests that arrive after the other user was stored
C27_DuplicateIs400Later ==
    [][ (DuplicateAnswered /\ last'.g.regBefore) => (last'.status = 400 /\ users' = users) ]_vars

(***************************************************************************)
(* Properties of the dashboard as a snapshot.                              *)
(***************************************************************************)
\* what the relational dashboard of user uid reports of a store whose
\* tables hold their first n.donations, n.conversions, n.media and
\* n.campaigns rows (rows are only ever appended)
SnapshotOf(n, uid, resp) ==
    LET d == SubSeq(donations, 1, n.donations)
        c == SubSeq(conversions, 1, n.conversions)
        m == SubSeq(media, 1, n.media)
        p == SubSeq(campaigns, 1, n.campaigns)
    IN /\ resp.stats.totalDonations = SqlSumAmount(d, uid)
       /\ resp.stats.conversionCount = SqlCount(c, uid)
       /\ resp.stats.animalsImpact = AnimalsImpact(SqlCount(c, uid))
       /\ resp.stats.mediaCount = SqlCount(m, uid)
       /\ resp.stats.totalReach = SqlSumReach(m, uid)
       /\ resp.stats.campaignCount = SqlCount(p, uid)
       /\ \E tieUp \in BOOLEAN : resp.recent.donations = SqlRecent(d, uid, tieUp)
       /\ \E tieUp \in BOOLEAN : resp.recent.conversions = SqlRecent(c, uid, tieUp)
       /\ \E tieUp \in BOOLEAN : resp.recent.media = SqlRecent(m, uid, tieUp)
       /\ \E tieUp \in BOOLEAN : resp.recent.campaigns = SqlRecent(p, uid, tieUp)

\* the sizes the tables have had between the start of the request of the
\* response and now
SizesSince(resp) ==
    [donations : resp.g.sizes.donations..Len(donations),
     conversions : resp.g.sizes.conversions..Len(conversions),
     media : resp.g.sizes.media..Len(media),
     campaigns : resp.g.sizes.campaigns..Len(campaigns)]

\* C28: every dashboard response of the relational server reports, in all
\* its statistics and recent lists together, one state the store has had
\* between the start of the request and the response.
C28_ConsistentSnapshot ==
    (DashboardAnswered /\ backend = "sql") =>
        \E n \in SizesSince(last) : SnapshotOf(n, last.id, last)

\* C28 for a dashboard during which no record was added
C28_SnapshotWhenQuiet ==
    (DashboardAnswered /\ backend = "sql" /\ last.g.sizes = TableSizes) =>
        SnapshotOf(TableSizes, last.id, last)

(***************************************************************************)
(* Properties of refused and of reading requests.                          *)
(***************************************************************************)
ReadingRoutes == {"login", "dashboard", "health"}

\* the step answers a request with status 4xx
Refuses == last'.status \in 400..499

\* the step answers a login, dashboard or health request
AnswersReading == last'.status # 0 /\ last'.route \in ReadingRoutes

\* the step takes a request to an await without answering it
Suspends == last'.status = 0 /\ reqs' # reqs

\* C29: a request that is answered with a 4xx status, and a login,
\* dashboard or health request whatever its status, leaves the stored
\* users, the stored records of every entity, the id counter and the file
\* as they were: the step that answers it changes none of them, and neither
\* does any earlier step of a request that is still in flight afterwards.
C29_RefusedLeavesStateUnchanged ==
    [][ (Refuses \/ AnswersReading \/ Suspends)
            => (store' = store /\ file' = file) ]_vars

\* a register request was refused as a duplicate after a donation had been
\* added
C29_Witness ==
    /\ last.status = 400 /\ last.route = "register"
    /\ last.error = "User already exists"
    /\ Len(donations) > Len(DemoData(backend).donations)

\* a login with a wrong password was refused after a user had registered
C29_WitnessLogin ==
    /\ last.status = 401 /\ last.route = "login"
    /\ FindUserByEmail(users, last.body.email) # 0
    /\ Len(users) = 3

(***************************************************************************)
(* Properties of what a failed login shows.                                *)
(***************************************************************************)
\* the password of the body verifies against the stored hash of the user
\* the login finds for the email of the body
Verifies(body) ==
    LET k == FindUserByEmail(users, body.email)
    IN k # 0 /\ BcryptCompare(body.password, users[k].password)

\* what the client sees of a response: the status and the body
Shown(resp) == [status |-> resp.status, error |-> resp.error, token |-> resp.token, id |-> resp.id]

InvalidCredentials == [status |-> 401, error |-> "Invalid credentials", token |-> NoToken, id |-> 0]

\* a login with an email and a password was answered, and the password does
\* not verify: no user holds the email, or the hash of the user who holds it
\* is of another password
LoginFailed ==
    /\ last.status # 0 /\ last.route = "login"
    /\ LoginValidation(last.body) = ""
    /\ ~Verifies(last.body)

\* C30: a login with email e and a password that does not verify is shown
\* the same status and the same body, 401 and 'Invalid credentials' without
\* a token or a user, whether a user holds e or not: what it is shown is
\* one value that does not depend on the store, so two stores that differ
\* only in whether e is registered give the same status and body.
C30_FailedLoginSameAnswer == LoginFailed => Shown(last) = InvalidCredentials

\* a login with the email of a user who registered in the run failed after
\* the registration
C30_Witness ==
    /\ LoginFailed
    /\ last.body.email = "bob@example.com"
    /\ FindUserByEmail(users, last.body.email) # 0
    /\ last.g.nUsers = Len(users)

\* the same login failed before the registration
C30_WitnessUnregistered ==
    /\ LoginFailed
    /\ last.body.email = "bob@example.com"
    /\ FindUserByEmail(users, last.body.email) = 0

====
